---- MODULE Spec2Model ----
(***************************************************************************)
(* A model of bep/htmlfmt: Formatter.Format (format.go), the token-tree    *)
(* builder parser.parse / parser.trackOpen (parse.go) and the writer.      *)
(*                                                                         *)
(* Bytes are modelled as sequences of symbols.  A symbol is a string: a    *)
(* one-byte character ("a", " ", "\n", "\t"), a run of non-space bytes of  *)
(* a known length ("w25"), or a whole tag, comment or doctype, which the   *)
(* tokenizer hands over as one token ("<div>", "</div>", "<br newline/>"). *)
(* Pointers to tokens are modelled as 1-based indices into the token list, *)
(* 0 standing for nil.                                                     *)
(***************************************************************************)
EXTENDS Integers, Sequences, FiniteSets, TLC

VARIABLES
  src,        \* the bytes read from the io.Reader of this Format call
  cfg,        \* the Formatter: newlineAttributePlaceholder, textFormatters
  events,     \* what html.Tokenizer yields for src, in order
  prs,        \* parser: i, counter, depth, tag, and err, the tokenizer's Err()
  tokens,     \* parser.tokens, later the tokenIterator's list
  pc,         \* "parse", "layout", "done"
  pos,        \* tokenIterator.pos + 1 (0 before the first Next)
  w,          \* writer: depth, newlineDepth
  inPre,      \* Format's local inPre
  formatText, \* Format's local formatText: TRUE when a TextFormatter is held
  dst,        \* the io.Writer: out (bytes accepted), calls (Write calls made), failed
  lastW,      \* the chunks handed to dst.Write by the latest layout step
  result,     \* "" while running; "ok" when Format returned nil; the error
              \* Format returned ("placeholder_error" or a tokenizer error);
              \* "panic" when Format panicked instead of returning
  round,      \* 1 for the first Format call, 2 for a second call on its output
  first,      \* the output of the first Format call (round 2 only)
  regexpCache, \* regexpCache.m, the process-wide map from pattern to matcher
  mu,         \* regexpCache's RWMutex: readers (who holds RLock), writer (0: nobody)
  gs,         \* the goroutines inside getOrCompileRegexp: pc, re, r
  history,    \* the Format calls this Formatter has finished: src, out, result
  ops         \* the writer operations made so far: op, writes, depth

vars == <<src, cfg, events, prs, tokens, pc, pos, w, inPre, formatText,
          dst, lastW, result, round, first, regexpCache, mu, gs, history, ops>>

----------------------------------------------------------------------------
(* Sequences *)

RECURSIVE Concat(_)
Concat(ss) == IF ss = <<>> THEN <<>> ELSE Head(ss) \o Concat(Tail(ss))

RECURSIVE Repeat(_, _)
Repeat(s, n) == IF n <= 0 THEN <<>> ELSE s \o Repeat(s, n - 1)

SeqsUpTo(S, n) == UNION {[1..k -> S] : k \in 0..n}

----------------------------------------------------------------------------
(* Tags: the symbols the tokenizer returns as one token each. *)

NoAttrs == <<>>
Attr(k) == <<[Key |-> k, Value |-> ""]>>

TagSym(typ, name, attrs, len) ==
  [typ |-> typ, name |-> name, attrs |-> attrs, len |-> len]

TagTable ==
     "<div>"          :> TagSym("StartTag", "div", NoAttrs, 5)
  @@ "</div>"         :> TagSym("EndTag", "div", NoAttrs, 6)
  @@ "<p>"            :> TagSym("StartTag", "p", NoAttrs, 3)
  @@ "</p>"           :> TagSym("EndTag", "p", NoAttrs, 4)
  @@ "<span>"         :> TagSym("StartTag", "span", NoAttrs, 6)
  @@ "</span>"        :> TagSym("EndTag", "span", NoAttrs, 7)
  @@ "<body>"         :> TagSym("StartTag", "body", NoAttrs, 6)
  @@ "</body>"        :> TagSym("EndTag", "body", NoAttrs, 7)
  @@ "<br>"           :> TagSym("StartTag", "br", NoAttrs, 4)
  @@ "</br>"          :> TagSym("EndTag", "br", NoAttrs, 5)
  @@ "<br/>"          :> TagSym("SelfClosingTag", "br", NoAttrs, 5)
  @@ "<br newline/>"  :> TagSym("SelfClosingTag", "br", Attr("newline"), 13)
  @@ "<br newline>"   :> TagSym("StartTag", "br", Attr("newline"), 12)
  @@ "<div newline/>" :> TagSym("SelfClosingTag", "div", Attr("newline"), 14)
  @@ "<div newline>"  :> TagSym("StartTag", "div", Attr("newline"), 13)
  @@ "<pre>"          :> TagSym("StartTag", "pre", NoAttrs, 5)
  @@ "</pre>"         :> TagSym("EndTag", "pre", NoAttrs, 6)
  @@ "<code newline>" :> TagSym("StartTag", "code", Attr("newline"), 14)
  @@ "<code>"         :> TagSym("StartTag", "code", NoAttrs, 6)
  @@ "</code>"        :> TagSym("EndTag", "code", NoAttrs, 7)
  @@ "<script>"       :> TagSym("StartTag", "script", NoAttrs, 8)
  @@ "</script>"      :> TagSym("EndTag", "script", NoAttrs, 9)
  @@ "<!--c-->"       :> TagSym("Comment", "", NoAttrs, 8)
  @@ "<!DOCTYPE html>" :> TagSym("Doctype", "", NoAttrs, 15)

IsTagSym(c) == c \in DOMAIN TagTable

\* Runs of non-space bytes longer than one byte.
WordTable == "w25" :> 25

SymLen(c) ==
  IF IsTagSym(c) THEN TagTable[c].len
  ELSE IF c \in DOMAIN WordTable THEN WordTable[c]
  ELSE 1

RECURSIVE ByteLen(_)
ByteLen(s) == IF s = <<>> THEN 0 ELSE SymLen(Head(s)) + ByteLen(Tail(s))

\* \s of Go's regexp, and unicode.IsSpace on the bytes the model uses.
IsSpace(c) == c \in {" ", "\n", "\t", "\r"}

----------------------------------------------------------------------------
(* The tokenizer (golang.org/x/net/html), as parser.Next reads it. *)

Tag(name, attrs) == [Name |-> name, Attributes |-> attrs]
ZeroTag == Tag("", NoAttrs)

\* After a <script> start tag the tokenizer reads raw text up to </script>.
RawTextEnd(c) ==
  IF TagTable[c].typ = "StartTag" /\ TagTable[c].name = "script"
  THEN "</script>" ELSE ""

TextEvent(raw) == [typ |-> "Text", raw |-> raw, tag |-> ZeroTag]
TagEvent(c) ==
  [typ |-> TagTable[c].typ, raw |-> <<c>>,
   tag |-> Tag(TagTable[c].name, TagTable[c].attrs)]

RECURSIVE Scan(_, _, _, _)
Scan(s, evs, txt, rawEnd) ==
  LET flushed == IF txt = <<>> THEN evs ELSE Append(evs, TextEvent(txt)) IN
  IF s = <<>> THEN flushed
  ELSE LET c == Head(s) IN
       IF rawEnd # "" /\ c # rawEnd THEN Scan(Tail(s), evs, Append(txt, c), rawEnd)
       ELSE IF IsTagSym(c)
            THEN Scan(Tail(s), Append(flushed, TagEvent(c)), <<>>, RawTextEnd(c))
            ELSE Scan(Tail(s), evs, Append(txt, c), rawEnd)

Tokenize(s) == Scan(s, <<>>, <<>>, "")

\* html.TokenType: the order `t.typ <= tt.typ` of trackOpen compares.
TokenTypeOrd(typ) ==
  CASE typ = "Error" -> 0
    [] typ = "Text" -> 1
    [] typ = "StartTag" -> 2
    [] typ = "EndTag" -> 3
    [] typ = "SelfClosingTag" -> 4
    [] typ = "Comment" -> 5
    [] typ = "Doctype" -> 6

----------------------------------------------------------------------------
(* Tag classes (parse.go) *)

isInline(name) ==
  name \in {"a", "b", "i", "em", "strong", "code", "span", "ins", "big",
            "small", "tt", "abbr", "acronym", "cite", "dfn", "kbd", "samp",
            "var", "bdo", "map", "q", "sub", "sup"}

isPreformatted(name) == name \in {"pre", "textarea", "code"}

isVoid(name) ==
  name \in {"input", "link", "meta", "hr", "img", "br", "area", "base", "col",
            "param", "command", "embed", "keygen", "source", "track", "wbr"}

shouldAlwaysHaveNewlineAppended(name) == name \in {"html", "body"}

----------------------------------------------------------------------------
(* Attributes *)

ZeroAttribute == [Key |-> "", Value |-> ""]

RECURSIVE ByKey(_, _)
ByKey(attrs, key) ==
  IF attrs = <<>> THEN ZeroAttribute
  ELSE IF Head(attrs).Key = key THEN Head(attrs) ELSE ByKey(Tail(attrs), key)

AttributeIsZero(a) == a.Key = ""

----------------------------------------------------------------------------
(* Text preparation (format.go) *)

tabStr == <<" ", " ">>
newlineBytes == <<"\n">>

\* nonSpaceRe `\S`
nonSpaceRe(b) == \E i \in 1..Len(b) : ~IsSpace(b[i])
\* leadingNewlineRe `^\s*\r?\n`
leadingNewlineRe(b) ==
  \E j \in 1..Len(b) : b[j] = "\n" /\ \A i \in 1..(j - 1) : IsSpace(b[i])
\* trailingNewlineRe `\n\s*$`
trailingNewlineRe(b) ==
  \E j \in 1..Len(b) : b[j] = "\n" /\ \A i \in (j + 1)..Len(b) : IsSpace(b[i])
\* leadingSpaceRe `^\s+\S`
leadingSpaceRe(b) == Len(b) > 0 /\ IsSpace(b[1]) /\ nonSpaceRe(b)
\* A faulty trailingSpaceRe: it looks at the start of the bytes.
trailingSpaceReAtStart(b) == leadingSpaceRe(b)

\* trailingSpaceRe `\S\s+$`
trailingSpaceRe(b) == Len(b) > 0 /\ IsSpace(b[Len(b)]) /\ nonSpaceRe(b)

\* bytes.Replace(inTxt, "\t", tab, -1)
RECURSIVE ReplaceTabs(_, _)
ReplaceTabs(b, tab) ==
  IF b = <<>> THEN <<>>
  ELSE (IF Head(b) = "\t" THEN tab ELSE <<Head(b)>>) \o ReplaceTabs(Tail(b), tab)

InCutset(c) == c \in {" ", "\r", "\n"}

RECURSIVE TrimLeft(_)
TrimLeft(b) == IF b # <<>> /\ InCutset(Head(b)) THEN TrimLeft(Tail(b)) ELSE b

RECURSIVE TrimRight(_)
TrimRight(b) ==
  IF b # <<>> /\ InCutset(b[Len(b)]) THEN TrimRight(SubSeq(b, 1, Len(b) - 1)) ELSE b

\* A faulty Trim: the trailing bytes are left in place.
TrimLeftOnly(b) == TrimLeft(b)

\* bytes.Trim(txt, " \r\n")
Trim(b) == TrimLeft(TrimRight(b))

bytesContainsNewline(b) == \E i \in 1..Len(b) : b[i] = "\n"

ZeroText ==
  [b |-> <<>>, hasNewline |-> FALSE, isWhitespaceOnly |-> FALSE,
   hadLeadingNewline |-> FALSE, hadTrailingNewline |-> FALSE,
   hadLeadingSpace |-> FALSE, hadTralingSpace |-> FALSE]

prepareText(inTxt, tab) ==
  LET txt == Trim(ReplaceTabs(inTxt, tab)) IN
  [b |-> txt,
   hasNewline |-> bytesContainsNewline(txt),
   isWhitespaceOnly |-> FALSE,
   hadLeadingNewline |-> leadingNewlineRe(inTxt),
   hadTrailingNewline |-> trailingNewlineRe(inTxt),
   hadLeadingSpace |-> leadingSpaceRe(inTxt),
   hadTralingSpace |-> trailingSpaceRe(inTxt)]

----------------------------------------------------------------------------
(* formatTextBlock (format.go) *)

\* The places of the separator "\n " of bytes.Split(txt, "\n ").
SepAt(txt, p) == p < Len(txt) /\ txt[p] = "\n" /\ txt[p + 1] = " "

\* bytes.IndexFunc(part, isNotSpace) for the part txt[from..to]: the byte
\* offset of its first non-space byte, -1 when it has none.
RECURSIVE IndexNotSpace(_, _, _, _)
IndexNotSpace(txt, from, to, off) ==
  IF from > to THEN -1
  ELSE IF ~IsSpace(txt[from]) THEN off
  ELSE IndexNotSpace(txt, from + 1, to, off + SymLen(txt[from]))

\* The end of the part that starts at `from`: just before the next separator.
RECURSIVE PartEnd(_, _)
PartEnd(txt, from) ==
  IF from > Len(txt) THEN Len(txt)
  ELSE IF SepAt(txt, from) THEN from - 1
  ELSE PartEnd(txt, from + 1)

\* The loop over parts[1..]: p scans txt for separators, idx is the running idx.
RECURSIVE CommonIndent(_, _, _)
CommonIndent(txt, p, idx) ==
  IF p > Len(txt) THEN idx
  ELSE IF SepAt(txt, p)
       THEN LET to == PartEnd(txt, p + 2)
                i == IndexNotSpace(txt, p + 2, to, 0)
                nidx == IF idx = -1 \/ (i # -1 /\ i < idx) THEN i + 1 ELSE idx
            IN CommonIndent(txt, p + 2, nidx)
       ELSE CommonIndent(txt, p + 1, idx)

\* regexp `\n\s{idx}`.ReplaceAllLiteral(txt, repl)
RECURSIVE ReplaceAllNewlineSpaces(_, _, _, _)
ReplaceAllNewlineSpaces(txt, p, idx, repl) ==
  IF p > Len(txt) THEN <<>>
  ELSE IF /\ txt[p] = "\n"
          /\ p + idx <= Len(txt)
          /\ \A j \in (p + 1)..(p + idx) : IsSpace(txt[j])
       THEN repl \o ReplaceAllNewlineSpaces(txt, p + idx + 1, idx, repl)
       ELSE <<txt[p]>> \o ReplaceAllNewlineSpaces(txt, p + 1, idx, repl)

\* The idx of formatTextBlock: the pattern it asks for is `\n\s{idx}`, and a
\* pattern is named by its idx.
patternOf(txt) ==
  LET idx0 == CommonIndent(txt, 1, -1)
  IN IF idx0 < 1 THEN 0 ELSE idx0

\* regexp.MustCompile(re): the matcher remembers the pattern it was made from.
MustCompile(re) == [pattern |-> re]

\* A faulty getOrCompileRegexp: a hit returns the matcher of the empty
\* indentation instead of the stored one.
getOrCompileRegexpStale(re) ==
  IF re \in DOMAIN regexpCache THEN MustCompile(0) ELSE MustCompile(re)

\* What getOrCompileRegexp(re) returns to a caller that runs it alone: the
\* matcher stored under re, or a matcher compiled now.
getOrCompileRegexp(re) ==
  IF re \in DOMAIN regexpCache THEN regexpCache[re] ELSE MustCompile(re)

\* regexpCache.m after getOrCompileRegexp(re) ran alone on the map m.
cacheStore(m, re) ==
  IF re \in DOMAIN m THEN m
  ELSE [k \in DOMAIN m \cup {re} |-> IF k = re THEN MustCompile(re) ELSE m[k]]

formatTextBlock(tab, txt, depth) ==
  LET re == getOrCompileRegexp(patternOf(txt))
  IN ReplaceAllNewlineSpaces(txt, 1, re.pattern, <<"\n">> \o Repeat(tab, depth))

----------------------------------------------------------------------------
(* The token-tree builder (parse.go) *)

\* The largest index of the set S, 0 when S is empty: what the loops
\* `for i := len(prs.tokens) - 1; i >= 0; i--` of trackOpen stop at, S being
\* the indices at which they break.
LastIndex(S) ==
  IF S = {} THEN 0 ELSE CHOOSE i \in S : \A j \in S : j <= i

\* A faulty switch: an EndTag leaves the depth where it is.
parseSwitchEndKeepsDepth(typ, tagName) ==
  CASE typ = "StartTag" ->
         [depthAdjustment |-> IF ~isVoid(tagName) THEN 1 ELSE 0,
          inPre |-> isPreformatted(tagName)]
    [] OTHER -> [depthAdjustment |-> 0, inPre |-> FALSE]

\* parser.parse, the switch on prs.currType: the depth adjustment and the
\* inPre flag handed to trackOpen.  `var inPre bool` is declared inside the
\* loop body, so it is false when the switch starts, for every token.
parseSwitch(typ, tagName) ==
  LET inPre0 == FALSE IN
  CASE typ = "StartTag" ->
         [depthAdjustment |-> IF ~(inPre0 \/ isVoid(tagName)) THEN 1 ELSE 0,
          inPre |-> IF ~inPre0 /\ isPreformatted(tagName) THEN TRUE ELSE inPre0]
    [] typ = "EndTag" ->
         LET isEndPre == inPre0 /\ isPreformatted(tagName) IN
         [depthAdjustment |-> IF ~isEndPre THEN -1 ELSE 0,
          inPre |-> IF ~isEndPre THEN inPre0 ELSE FALSE]
    [] OTHER -> [depthAdjustment |-> 0, inPre |-> inPre0]

\* A faulty pairing loop: it runs from the first token up, so the earliest
\* eligible start tag is taken.
pairingTargetFirst(toks, t) ==
  LET S == {i \in 1..Len(toks) :
              /\ ~(\/ toks[i].closed
                   \/ t.tag.Name # toks[i].tag.Name
                   \/ TokenTypeOrd(t.typ) <= TokenTypeOrd(toks[i].typ)
                   \/ toks[i].typ = "Text")
              /\ toks[i].depth = t.depth
              /\ t.tag.Name = toks[i].tag.Name}
  IN IF S = {} THEN 0 ELSE CHOOSE i \in S : \A j \in S : i <= j

\* trackOpen, the loop that attaches the start element to the end tag t:
\* the index of the token it stops at, 0 when it runs to the end.
pairingTarget(toks, t) ==
  LastIndex({i \in 1..Len(toks) :
    /\ ~(\/ toks[i].closed
         \/ t.tag.Name # toks[i].tag.Name
         \/ TokenTypeOrd(t.typ) <= TokenTypeOrd(toks[i].typ)
         \/ toks[i].typ = "Text")
    /\ toks[i].depth = t.depth
    /\ t.tag.Name = toks[i].tag.Name})

\* A faulty child linking loop: it runs from the first token up, so the
\* earliest open token one level up is taken.
parentTargetFirst(toks, t) ==
  LET S == {i \in 1..Len(toks) :
              /\ ~toks[i].closed
              /\ (t.depth - toks[i].depth) = 1}
  IN IF S = {} THEN 0 ELSE CHOOSE i \in S : \A j \in S : i <= j

\* trackOpen, the loop that links t to its parent.
parentTarget(toks, t) ==
  LastIndex({i \in 1..Len(toks) :
    /\ ~toks[i].closed
    /\ (t.depth - toks[i].depth) = 1})

\* parser.trackOpen: the parser and the token list after the call.
trackOpen(p, toks, ev, tag, depthAdjustment, inPreArg) ==
  LET closed == ev.typ = "EndTag"
      depth == IF ev.typ = "EndTag" THEN p.depth + depthAdjustment ELSE p.depth
      t0 == [i |-> p.counter, inPre |-> inPreArg, typ |-> ev.typ, raw |-> ev.raw,
             tag |-> tag, closed |-> closed, depth |-> depth,
             startElement |-> 0, children |-> <<>>, indented |-> FALSE,
             text |-> IF ev.typ = "Text" THEN prepareText(ev.raw, tabStr)
                      ELSE ZeroText]
      start == IF t0.closed /\ ~t0.inPre THEN pairingTarget(toks, t0) ELSE 0
      t == [t0 EXCEPT !.startElement = start]
      toks1 == IF start = 0 THEN toks
               ELSE [toks EXCEPT ![start].closed = t.closed]
      parent == parentTarget(toks1, t)
      toks2 == IF parent = 0 THEN toks1
               ELSE [toks1 EXCEPT ![parent].children = Append(@, Len(toks) + 1)]
  IN [prs |-> [p EXCEPT !.counter = @ + 1,
                        !.depth = p.depth + depthAdjustment,
                        !.tag = tag],
      tokens |-> Append(toks2, t)]

\* token.size(): the bytes of the token and of all its descendants.
RECURSIVE size(_, _)
RECURSIVE sizeOfAll(_, _)
size(toks, i) ==
  (IF ~toks[i].text.isWhitespaceOnly THEN ByteLen(toks[i].raw) ELSE 0)
  + sizeOfAll(toks, toks[i].children)
sizeOfAll(toks, cs) ==
  IF cs = <<>> THEN 0 ELSE size(toks, Head(cs)) + sizeOfAll(toks, Tail(cs))

sizeNewlineThreshold == 30

tokIsInline(t) == isInline(t.tag.Name)
tokIsBlock(t) == ~(tokIsInline(t) \/ t.typ = "Text")
tokIsVoid(t) == isVoid(t.tag.Name)
isStartIndented(toks, t) ==
  t.startElement # 0 /\ toks[t.startElement].indented

\* A child that counts as a block in needsNewlineAppended.
isBlockChild(c) ==
  IF c.typ = "StartTag" /\ ~tokIsInline(c) THEN TRUE ELSE c.text.hasNewline

\* A faulty needsNewlineAppended: the size test is >= where the code has >.
needsNewlineAppendedAtThreshold(toks, i) ==
  LET t == toks[i] IN
  IF t.inPre THEN FALSE
  ELSE IF Len(t.children) = 0 THEN FALSE
  ELSE IF shouldAlwaysHaveNewlineAppended(t.tag.Name) THEN TRUE
  ELSE IF \E k \in 1..Len(t.children) : isBlockChild(toks[t.children[k]]) THEN TRUE
  ELSE size(toks, i) >= sizeNewlineThreshold

needsNewlineAppended(toks, i) ==
  LET t == toks[i] IN
  IF t.inPre THEN FALSE
  ELSE IF Len(t.children) = 0 THEN FALSE
  ELSE IF shouldAlwaysHaveNewlineAppended(t.tag.Name) THEN TRUE
  ELSE IF \E k \in 1..Len(t.children) : isBlockChild(toks[t.children[k]]) THEN TRUE
  ELSE size(toks, i) > sizeNewlineThreshold

\* tokenIterator.PeekStart: the next StartTag after pos, 0 when there is none.
PeekStart(toks, p) ==
  LET S == {i \in (p + 1)..Len(toks) : toks[i].typ = "StartTag"} IN
  IF S = {} THEN 0 ELSE CHOOSE i \in S : \A j \in S : i <= j

----------------------------------------------------------------------------
(* The writer (format.go).  ws is the writer during one iteration of the  *)
(* layout loop: depth, newlineDepth, writes, the chunks handed to         *)
(* mustWrite so far in this iteration, in order, and compiled, the        *)
(* patterns asked of getOrCompileRegexp so far in this iteration, each    *)
(* with the number of writes made before it.                              *)

mustWrite(ws, p) == [ws EXCEPT !.writes = Append(@, p)]

\* writer.write
write(ws, p) == mustWrite([ws EXCEPT !.newlineDepth = 0], p)

\* A faulty newline: it counts the request but writes every time.
newlineAlways(ws) ==
  mustWrite([ws EXCEPT !.newlineDepth = @ + 1], newlineBytes)

\* What writer.newline returns.
newlineWrites(ws) == ~(ws.newlineDepth + 1 > 1)

\* writer.newline
newline(ws) ==
  LET n == [ws EXCEPT !.newlineDepth = @ + 1] IN
  IF n.newlineDepth > 1 THEN n ELSE mustWrite(n, newlineBytes)

\* A faulty newlineForced: it goes through the coalescing newline().
newlineForcedCoalesced(ws) == newline(ws)

\* writer.newlineForced
newlineForced(ws) == mustWrite(ws, newlineBytes)

\* writer.tab
tab(ws) == mustWrite(ws, Repeat(tabStr, ws.depth))

\* A faulty dedent: the newline and the indentation, the depth is kept.
dedentKeepsDepth(ws) ==
  LET n == newline(ws) IN IF newlineWrites(ws) THEN tab(n) ELSE n

\* n := w.newline(); w.depth--; if w.depth < 0 { w.depth = 0 }; if n { w.tab() }
dedent(ws) ==
  LET n == newline(ws)
      d == [n EXCEPT !.depth = IF @ - 1 < 0 THEN 0 ELSE @ - 1]
  IN IF newlineWrites(ws) THEN tab(d) ELSE d

\* A faulty newline plus indentation: the indentation is left out.
newlineTabBare(ws) == newline(ws)

\* if w.newline() { w.tab() }
newlineTab(ws) == IF newlineWrites(ws) THEN tab(newline(ws)) ELSE newline(ws)

----------------------------------------------------------------------------
(* Text formatters.  cfg.textFormatters names the lookup the caller gave:  *)
(* "none" is New's default (always nil), "script" returns upperAtDepth for *)
(* script tags, "div" returns it for div tags.  A formatter is named by a  *)
(* string, "" being nil.                                                   *)

textFormatters(c, tag) ==
  IF c.textFormatters = "script" /\ tag.Name = "script" THEN "upperAtDepth"
  ELSE IF c.textFormatters = "div" /\ tag.Name = "div" THEN "upperAtDepth"
  ELSE ""

Upper(ch) == IF ch = "a" THEN "A" ELSE ch

\* The caller's TextFormatter: the text in upper case after depth '#' bytes.
upperAtDepth(text, depth) ==
  Repeat(<<"#">>, depth) \o [i \in 1..Len(text) |-> Upper(text[i])]

applyFormatter(ft, text, depth) == upperAtDepth(text, depth)

----------------------------------------------------------------------------
(* One iteration of the layout loop of Formatter.Format, for the token at  *)
(* index p (curr).  Each case gives the Outcome of the iteration.          *)

Outcome(ws, ip, ft, ind, err) ==
  [ws |-> ws, inPre |-> ip, formatText |-> ft, indented |-> ind, err |-> err]

hasPrev(p) == p > 1
hasNext(toks, p) == p < Len(toks)

\* A faulty passthrough test: the layout loop never copies a token raw.
inPassthroughNever(ip, curr) == FALSE

\* if inPre && !curr.inPre
inPassthrough(ip, curr) == ip /\ ~curr.inPre

\* A faulty whitespace test: every Text counts as whitespace only.
isWhitespaceTextAny(curr) == curr.typ = "Text"

\* curr.typ == html.TextToken && !nonSpaceRe.Match(curr.raw)
isWhitespaceText(curr) == curr.typ = "Text" /\ ~nonSpaceRe(curr.raw)

\* The whitespace-only block: the newlines it preserves.
whitespaceOnly(toks, p, ws) ==
  LET curr == toks[p]
      ws1 == IF ~hasPrev(p) /\ leadingNewlineRe(curr.raw) THEN newline(ws) ELSE ws
  IN IF ~hasNext(toks, p) /\ trailingNewlineRe(curr.raw) THEN newline(ws1) ELSE ws1

\* newlineAttribute
hasNewlineAttribute(curr, c) ==
  /\ curr.typ # "Text"
  /\ c.newlineAttributePlaceholder # ""
  /\ ~AttributeIsZero(ByKey(curr.tag.Attributes, c.newlineAttributePlaceholder))

\* A faulty misuse test: the negation of isVoid is lost.
placeholderMisuseOnVoid(curr, c) == hasNewlineAttribute(curr, c) /\ tokIsVoid(curr)

\* if newlineAttribute && !curr.isVoid(): return errors.New(...)
placeholderMisuse(curr, c) == hasNewlineAttribute(curr, c) /\ ~tokIsVoid(curr)

startTagCase(toks, p, ws, ip, ft, c) ==
  LET curr == toks[p] IN
  IF curr.inPre THEN Outcome(write(ws, curr.raw), TRUE, ft, FALSE, FALSE)
  ELSE
    LET ft1 == textFormatters(c, curr.tag)
        needs == ft1 = "" /\ needsNewlineAppended(toks, p)
        voidBetween == hasPrev(p) /\ hasNext(toks, p) /\ tokIsVoid(curr)
        ws1 == IF ft1 # "" THEN ws
               ELSE IF needs THEN [ws EXCEPT !.depth = @ + 1]
               ELSE IF voidBetween THEN newlineTab(ws)
               ELSE ws
        ws2 == write(ws1, curr.raw)
        ws3 == IF ft1 = "" /\ (needs \/ voidBetween) THEN newlineTab(ws2) ELSE ws2
    IN Outcome(ws3, ip, ft1, needs, FALSE)

selfClosingCase(toks, p, ws, ip, ft) ==
  LET ws1 == write(ws, toks[p].raw)
      ws2 == IF ~hasPrev(p) /\ hasNext(toks, p) THEN newline(ws1) ELSE ws1
  IN Outcome(ws2, ip, ft, FALSE, FALSE)

\* The EndTag case up to w.write: newline, dedent and indentation.
endTagDedent(toks, p, ws, ft) ==
  IF ft = "" /\ isStartIndented(toks, toks[p]) THEN dedent(ws) ELSE ws

endTagCase(toks, p, ws, ip, ft) ==
  LET curr == toks[p] IN
  IF curr.inPre THEN Outcome(write(ws, curr.raw), FALSE, ft, FALSE, FALSE)
  ELSE
    LET ws1 == endTagDedent(toks, p, ws, ft)
        ws2 == write(ws1, curr.raw)
        nextStart == PeekStart(toks, p)
        ws3 == IF /\ hasNext(toks, p)
                  /\ ~tokIsInline(toks[p + 1])
                  /\ nextStart # 0
                  /\ curr.depth = toks[nextStart].depth
               THEN newlineTab(ws2) ELSE ws2
    IN Outcome(ws3, ip, ft, FALSE, FALSE)

defaultTextTokenHandler(toks, p, ws) ==
  LET curr == toks[p]
      txt == curr.text
      text0 == IF /\ txt.hadTralingSpace
                  /\ hasNext(toks, p)
                  /\ toks[p + 1].typ = "StartTag"
                  /\ tokIsInline(toks[p + 1])
               THEN Append(txt.b, " ") ELSE txt.b
      prevIsInlineEndTag ==
        hasPrev(p) /\ toks[p - 1].typ = "EndTag" /\ tokIsInline(toks[p - 1])
      text1 == IF prevIsInlineEndTag /\ txt.hadLeadingSpace
               THEN <<" ">> \o text0 ELSE text0
  IN IF text0 = <<>> THEN ws
     ELSE IF txt.hasNewline
          THEN write([ws EXCEPT !.compiled =
                        Append(@, [re |-> patternOf(text1), at |-> Len(ws.writes)])],
                     formatTextBlock(tabStr, text1, ws.depth))
     ELSE write(ws, text1)

handleTextToken(toks, p, ws) ==
  IF toks[p].inPre THEN write(ws, toks[p].raw)
  ELSE defaultTextTokenHandler(toks, p, ws)

\* The Text case, the body between the two newline requests.
textBody(toks, p, ws, ft) ==
  IF ft # "" THEN write(ws, applyFormatter(ft, toks[p].raw, ws.depth))
  ELSE handleTextToken(toks, p, ws)

textCase(toks, p, ws, ip, ft) ==
  LET curr == toks[p]
      ws1 == IF /\ hasPrev(p)
                /\ (toks[p - 1].typ = "EndTag" \/ tokIsVoid(toks[p - 1]))
                /\ tokIsBlock(toks[p - 1])
             THEN newlineTab(ws) ELSE ws
      ws2 == IF ~hasPrev(p) /\ curr.text.hadLeadingNewline
             THEN newlineTab(ws1) ELSE ws1
      ws3 == textBody(toks, p, ws2, ft)
      ws4 == IF /\ hasNext(toks, p)
                /\ ~tokIsInline(toks[p + 1])
                /\ curr.text.hadTrailingNewline
                /\ toks[p + 1].depth = curr.depth
             THEN newlineTab(ws3) ELSE ws3
  IN Outcome(ws4, ip, ft, FALSE, FALSE)

\* switch curr.typ
typeSwitch(toks, p, ws, ip, ft, c) ==
  CASE toks[p].typ = "StartTag" -> startTagCase(toks, p, ws, ip, ft, c)
    [] toks[p].typ \in {"SelfClosingTag", "Comment", "Doctype"} ->
         selfClosingCase(toks, p, ws, ip, ft)
    [] toks[p].typ = "EndTag" -> endTagCase(toks, p, ws, ip, ft)
    [] toks[p].typ = "Text" -> textCase(toks, p, ws, ip, ft)

\* From the newlineAttribute check to the end of the loop body.
afterWhitespace(toks, p, ws, ip, ft, c) ==
  IF placeholderMisuse(toks[p], c) THEN Outcome(ws, ip, ft, FALSE, TRUE)
  ELSE IF hasNewlineAttribute(toks[p], c)
       THEN Outcome(newlineForced(ws), ip, ft, FALSE, FALSE)
  ELSE typeSwitch(toks, p, ws, ip, ft, c)

\* The whole loop body for the token at p, from the writer state ws0.
layoutToken(toks, p, ws0, ip, ft, c) ==
  LET curr == toks[p] IN
  IF inPassthrough(ip, curr) THEN Outcome(write(ws0, curr.raw), ip, ft, FALSE, FALSE)
  ELSE IF isWhitespaceText(curr)
       THEN LET ws1 == whitespaceOnly(toks, p, ws0) IN
            IF ~hasPrev(p) \/ ~toks[p - 1].inPre
            THEN Outcome(ws1, ip, ft, FALSE, FALSE)
            ELSE afterWhitespace(toks, p, ws1, ip, ft, c)
  ELSE afterWhitespace(toks, p, ws0, ip, ft, c)

----------------------------------------------------------------------------
(* Formatter.Format as a state machine: one step per token read by the    *)
(* parser, then one step per iteration of the layout loop.                *)

\* New(options...) with no WithTab: the configurations the model runs.
Formatter(placeholder, lookup) ==
  [newlineAttributePlaceholder |-> placeholder, textFormatters |-> lookup]

\* newParser
newParser == [i |-> -1, counter |-> 0, depth |-> 0, tag |-> ZeroTag, err |-> ""]
\* &writer{dst: dst, f: f, iter: iter}
newWriter == [depth |-> 0, newlineDepth |-> 0]
\* The sink the caller hands to Format, nothing written yet.
newSink == [out |-> <<>>, calls |-> 0, failed |-> FALSE]
\* regexpCache.m as the package initialises it: make(map[string]*regexp.Regexp)
emptyCache == <<>>
\* The zero sync.RWMutex
newRWMutex == [readers |-> {}, writer |-> 0]

InitFor(inputs, formatters) ==
  /\ cfg \in formatters
  /\ src \in inputs
  /\ events = Tokenize(src)
  /\ prs = newParser
  /\ tokens = <<>>
  /\ pc = "parse"
  /\ pos = 0
  /\ w = newWriter
  /\ inPre = FALSE
  /\ formatText = ""
  /\ dst = newSink
  /\ lastW = <<>>
  /\ result = ""
  /\ round = 1
  /\ first = <<>>
  /\ regexpCache = emptyCache
  /\ mu = newRWMutex
  /\ gs = <<>>
  /\ history = <<>>
  /\ ops = <<>>

\* parse: prs.Next() returns a token, the switch, trackOpen.
ParseToken ==
  /\ pc = "parse"
  /\ prs.i + 2 <= Len(events)
  /\ LET ev == events[prs.i + 2]
         tag == IF ev.typ # "Text" THEN ev.tag ELSE prs.tag
         sw == parseSwitch(ev.typ, tag.Name)
         r == trackOpen([prs EXCEPT !.i = @ + 1], tokens, ev, tag,
                        sw.depthAdjustment, sw.inPre)
     IN /\ prs' = r.prs
        /\ tokens' = r.tokens
  /\ UNCHANGED <<src, cfg, events, pc, pos, w, inPre, formatText, dst, lastW,
                 result, round, first, regexpCache, mu, gs, history, ops>>

\* Format after parse returned at EOF: the texts are prepared again with
\* f.tabStr, the iterator and the writer are set up.
prepareTexts(toks) ==
  [i \in 1..Len(toks) |->
     IF toks[i].typ = "Text"
     THEN [toks[i] EXCEPT !.text = prepareText(toks[i].raw, tabStr)]
     ELSE toks[i]]

ParseEOF ==
  /\ pc = "parse"
  /\ prs.i + 2 > Len(events)
  /\ tokens' = prepareTexts(tokens)
  /\ prs' = [prs EXCEPT !.i = @ + 1]
  /\ pc' = "layout"
  /\ UNCHANGED <<src, cfg, events, pos, w, inPre, formatText, dst, lastW,
                 result, round, first, regexpCache, mu, gs, history, ops>>

\* The errors prs.Err() may hold besides io.EOF: html.ErrBufferExceeded, or
\* whatever the io.Reader returned.
ReaderErrors == {"max buffer exceeded", "unexpected EOF"}

\* A faulty ErrorToken case: every tokenizer error ends the loop the way
\* io.EOF does, and parse returns the tokens read so far.
ParseErrorAsEOF ==
  /\ pc = "parse"
  /\ \E e \in ReaderErrors : prs' = [prs EXCEPT !.i = @ + 1, !.err = e]
  /\ tokens' = prepareTexts(tokens)
  /\ pc' = "layout"
  /\ UNCHANGED <<src, cfg, events, pos, w, inPre, formatText, dst, lastW,
                 result, round, first, regexpCache, mu, gs, history, ops>>

\* parse: the tokenizer returns an ErrorToken whose error is not EOF;
\* parse returns (nil, err) and Format returns err.
ParseError ==
  /\ pc = "parse"
  /\ \E e \in ReaderErrors :
       /\ prs' = [prs EXCEPT !.i = @ + 1, !.err = e]
       /\ result' = e
  /\ pc' = "done"
  /\ UNCHANGED <<src, cfg, events, tokens, pos, w, inPre, formatText, dst,
                 lastW, round, first, regexpCache, mu, gs, history, ops>>

\* A faulty marking: the expanded StartTag is marked closed as well.
markIndentedClosed(toks, p, ind) ==
  IF ind THEN [toks EXCEPT ![p].indented = TRUE, ![p].closed = TRUE] ELSE toks

\* curr.indented = true, when the StartTag case expands the element
markIndented(toks, p, ind) ==
  IF ind THEN [toks EXCEPT ![p].indented = TRUE] ELSE toks

\* The outcome of the loop body for the next token.
NextOutcome ==
  layoutToken(tokens, pos + 1, [depth |-> w.depth, newlineDepth |-> w.newlineDepth,
                                writes |-> <<>>, compiled |-> <<>>],
              inPre, formatText, cfg)

\* regexpCache.m after the getOrCompileRegexp calls an iteration made before
\* its k-th write, k being Len(writes) + 1 for an iteration that ran through.
RECURSIVE cacheAfter(_, _, _)
cacheAfter(m, compiled, k) ==
  IF compiled = <<>> THEN m
  ELSE cacheAfter(IF Head(compiled).at < k THEN cacheStore(m, Head(compiled).re)
                  ELSE m,
                  Tail(compiled), k)

\* One iteration of the layout loop, every Write accepted by the sink; the
\* iteration may end Format with the placeholder error.
LayoutToken ==
  /\ pc = "layout"
  /\ pos < Len(tokens)
  /\ \E o \in {NextOutcome} :
     /\ pos' = pos + 1
     /\ lastW' = o.ws.writes
     /\ dst' = [dst EXCEPT !.out = @ \o Concat(o.ws.writes),
                           !.calls = @ + Len(o.ws.writes)]
     /\ w' = [depth |-> o.ws.depth, newlineDepth |-> o.ws.newlineDepth]
     /\ inPre' = o.inPre
     /\ formatText' = o.formatText
     /\ tokens' = markIndented(tokens, pos + 1, o.indented)
     /\ pc' = IF o.err THEN "done" ELSE "layout"
     /\ result' = IF o.err THEN "placeholder_error" ELSE ""
     /\ regexpCache' = cacheAfter(regexpCache, o.ws.compiled, Len(o.ws.writes) + 1)
  /\ UNCHANGED <<src, cfg, events, prs, round, first, mu, gs, history, ops>>

\* A faulty mustWrite: the error of dst.Write is dropped and the loop goes on.
sinkFailureIgnored(d, writes, k) ==
  [state |-> "",
   dst |-> [out |-> d.out \o Concat(SubSeq(writes, 1, k - 1))
                          \o Concat(SubSeq(writes, k + 1, Len(writes))),
            calls |-> d.calls + Len(writes),
            failed |-> TRUE]]

\* What mustWrite does when dst.Write returns an error at the k-th Write of
\* an iteration: it panics, and nothing catches the panic in Format.
sinkFailure(d, writes, k) ==
  [state |-> "panic",
   dst |-> [out |-> d.out \o Concat(SubSeq(writes, 1, k - 1)),
            calls |-> d.calls + k,
            failed |-> TRUE]]

\* One iteration of the layout loop in which the sink fails a Write.
LayoutWriteFails ==
  /\ pc = "layout"
  /\ pos < Len(tokens)
  /\ \E o \in {NextOutcome} :
     \E k \in 1..Len(o.ws.writes) :
       \E f \in {sinkFailure(dst, o.ws.writes, k)} :
       /\ pos' = pos + 1
       /\ lastW' = SubSeq(o.ws.writes, 1, k)
       /\ dst' = f.dst
       /\ result' = f.state
       /\ pc' = IF f.state = "" THEN "layout" ELSE "done"
       /\ w' = [depth |-> o.ws.depth, newlineDepth |-> o.ws.newlineDepth]
       /\ regexpCache' = cacheAfter(regexpCache, o.ws.compiled, k)
  /\ UNCHANGED <<src, cfg, events, prs, tokens, inPre, formatText, round, first,
                 mu, gs, history, ops>>

\* iter.Next() returns nil: Format returns nil.
LayoutEnd ==
  /\ pc = "layout"
  /\ pos = Len(tokens)
  /\ pc' = "done"
  /\ result' = "ok"
  /\ UNCHANGED <<src, cfg, events, prs, tokens, pos, w, inPre, formatText,
                 dst, lastW, round, first, regexpCache, mu, gs, history, ops>>

\* A second Format call, with the same Formatter, on the first call's output.
FormatAgain ==
  /\ pc = "done"
  /\ result = "ok"
  /\ round = 1
  /\ round' = 2
  /\ first' = dst.out
  /\ src' = dst.out
  /\ events' = Tokenize(dst.out)
  /\ prs' = newParser
  /\ tokens' = <<>>
  /\ pc' = "parse"
  /\ pos' = 0
  /\ w' = newWriter
  /\ inPre' = FALSE
  /\ formatText' = ""
  /\ dst' = newSink
  /\ lastW' = <<>>
  /\ result' = ""
  /\ UNCHANGED <<cfg, regexpCache, mu, gs, history, ops>>

\* The caller calls Format again on the same Formatter, with any source:
\* the finished call is noted in history, the Formatter and the pattern cache
\* stay as the finished call left them.
FormatReuse(inputs, maxCalls) ==
  /\ pc = "done"
  /\ Len(history) + 1 < maxCalls
  /\ history' = Append(history, [src |-> src, out |-> dst.out, result |-> result])
  /\ src' \in inputs
  /\ events' = Tokenize(src')
  /\ prs' = newParser
  /\ tokens' = <<>>
  /\ pc' = "parse"
  /\ pos' = 0
  /\ w' = newWriter
  /\ inPre' = FALSE
  /\ formatText' = ""
  /\ dst' = newSink
  /\ lastW' = <<>>
  /\ result' = ""
  /\ UNCHANGED <<cfg, round, first, regexpCache, mu, gs, ops>>

----------------------------------------------------------------------------
(* getOrCompileRegexp run by several goroutines at once, one step per      *)
(* statement.  gs[g] is goroutine g: pc, the place it is at; re, the        *)
(* pattern it asked for; r, its local r; n, the calls it has made.          *)

formatVars == <<src, cfg, events, prs, tokens, pc, pos, w, inPre, formatText,
                dst, lastW, result, round, first, history, ops>>

\* A goroutine calls getOrCompileRegexp(re).
CacheCall(g, patterns, maxCalls) ==
  /\ gs[g].pc \in {"idle", "returned"}
  /\ gs[g].n < maxCalls
  /\ \E re \in patterns :
       gs' = [gs EXCEPT ![g] = [pc |-> "call", re |-> re, r |-> MustCompile(0),
                                n |-> gs[g].n + 1]]
  /\ UNCHANGED <<formatVars, regexpCache, mu>>

\* regexpCache.RLock(): waits while a writer holds the lock.
CacheRLock(g) ==
  /\ gs[g].pc = "call"
  /\ mu.writer = 0
  /\ mu' = [mu EXCEPT !.readers = @ \cup {g}]
  /\ gs' = [gs EXCEPT ![g].pc = "rlocked"]
  /\ UNCHANGED <<formatVars, regexpCache>>

\* r, ok := regexpCache.m[re]
CacheLookup(g) ==
  /\ gs[g].pc = "rlocked"
  /\ gs' = IF gs[g].re \in DOMAIN regexpCache
           THEN [gs EXCEPT ![g].pc = "hit", ![g].r = regexpCache[gs[g].re]]
           ELSE [gs EXCEPT ![g].pc = "miss"]
  /\ UNCHANGED <<formatVars, regexpCache, mu>>

\* regexpCache.RUnlock(), then return r on a hit.
CacheRUnlock(g) ==
  /\ gs[g].pc \in {"hit", "miss"}
  /\ mu' = [mu EXCEPT !.readers = @ \ {g}]
  /\ gs' = [gs EXCEPT ![g].pc = IF gs[g].pc = "hit" THEN "returned" ELSE "unlocked"]
  /\ UNCHANGED <<formatVars, regexpCache>>

\* A faulty Lock: the goroutine takes the read lock where it needs the
\* write lock.
CacheLockShared(g) ==
  /\ gs[g].pc = "unlocked"
  /\ mu.writer = 0
  /\ mu' = [mu EXCEPT !.readers = @ \cup {g}]
  /\ gs' = [gs EXCEPT ![g].pc = "locked"]
  /\ UNCHANGED <<formatVars, regexpCache>>

\* regexpCache.Lock(): waits while anybody holds the lock.
CacheLock(g) ==
  /\ gs[g].pc = "unlocked"
  /\ mu.writer = 0
  /\ mu.readers = {}
  /\ mu' = [mu EXCEPT !.writer = g]
  /\ gs' = [gs EXCEPT ![g].pc = "locked"]
  /\ UNCHANGED <<formatVars, regexpCache>>

\* r := regexp.MustCompile(re); regexpCache.m[re] = r
CacheStore(g) ==
  /\ gs[g].pc = "locked"
  /\ gs' = [gs EXCEPT ![g].pc = "stored", ![g].r = MustCompile(gs[g].re)]
  /\ regexpCache' =
       [k \in DOMAIN regexpCache \cup {gs[g].re} |->
          IF k = gs[g].re THEN MustCompile(gs[g].re) ELSE regexpCache[k]]
  /\ UNCHANGED <<formatVars, mu>>

\* regexpCache.Unlock(), then return r.
CacheUnlock(g) ==
  /\ gs[g].pc = "stored"
  /\ mu' = [mu EXCEPT !.writer = 0, !.readers = @ \ {g}]
  /\ gs' = [gs EXCEPT ![g].pc = "returned"]
  /\ UNCHANGED <<formatVars, regexpCache>>

----------------------------------------------------------------------------

Next ==
  \/ ParseToken
  \/ ParseEOF
  \/ ParseError
  \/ LayoutToken
  \/ LayoutWriteFails
  \/ LayoutEnd

NextAgain == Next \/ FormatAgain

----------------------------------------------------------------------------
(* Specifications: the same Format machine over bounded families of       *)
(* sources and Formatter configurations.                                  *)

\* The longest source, in symbols, of each family.
MaxLen == 4
MaxLenAgain == 5
MaxLenPlaceholder == 4
MaxLenPre == 4
MaxLenSize == 4
MaxLenFormatter == 4

Alphabet == {"a", " ", "\n", "<div>", "</div>", "<span>", "</span>", "<br>"}

Init == InitFor(SeqsUpTo(Alphabet, MaxLen), {Formatter("", "none")})

Spec == Init /\ [][Next]_vars

\* Sources whose tags nest properly: every end tag closes the innermost
\* open element, <br> is void, and nothing is left open at the end.
RECURSIVE Balanced(_, _)
Balanced(s, open) ==
  IF s = <<>> THEN open = <<>>
  ELSE LET c == Head(s) IN
       IF ~IsTagSym(c) THEN Balanced(Tail(s), open)
       ELSE IF TagTable[c].typ = "StartTag" /\ ~isVoid(TagTable[c].name)
            THEN Balanced(Tail(s), <<TagTable[c].name>> \o open)
       ELSE IF TagTable[c].typ = "EndTag"
            THEN /\ open # <<>>
                 /\ Head(open) = TagTable[c].name
                 /\ Balanced(Tail(s), Tail(open))
       ELSE Balanced(Tail(s), open)

InitAgain ==
  InitFor({s \in SeqsUpTo(Alphabet, MaxLenAgain) : Balanced(s, <<>>)},
          {Formatter("", "none")})

SpecAgain == InitAgain /\ [][NextAgain]_vars

\* Sources with the newline placeholder attribute, the placeholder configured.
AlphabetPlaceholder ==
  {"a", "<div>", "</div>", "<br newline/>", "<br newline>", "<div newline/>",
   "<div newline>", "<pre>"}

InitPlaceholder ==
  InitFor(SeqsUpTo(AlphabetPlaceholder, MaxLenPlaceholder),
          {Formatter("newline", "none")})

SpecPlaceholder == InitPlaceholder /\ [][Next]_vars

\* Sources with verbatim elements, with and without a configured placeholder.
AlphabetPre ==
  {"a", " ", "\n", "<div>", "</div>", "<pre>", "</pre>", "<code newline>"}

InitPre ==
  InitFor(SeqsUpTo(AlphabetPre, MaxLenPre),
          {Formatter("", "none"), Formatter("newline", "none")})

SpecPre == InitPre /\ [][Next]_vars

\* Sources around the size threshold: "<div>" and "w25" are 30 bytes.
AlphabetSize == {"a", "w25", "\n", "<div>", "</div>", "<span>", "<body>"}

InitSize == InitFor(SeqsUpTo(AlphabetSize, MaxLenSize), {Formatter("", "none")})

SpecSize == InitSize /\ [][Next]_vars

\* Sources with script elements, the lookup returning upperAtDepth for them.
AlphabetFormatter ==
  {"a", " ", "\n", "<script>", "</script>", "<div>", "</div>"}

InitFormatter ==
  InitFor(SeqsUpTo(AlphabetFormatter, MaxLenFormatter),
          {Formatter("", "script")})

SpecFormatter == InitFormatter /\ [][Next]_vars

\* Sources with comments, a doctype and self-closing tags.
MaxLenComment == 4

AlphabetComment ==
  {"a", "\n", "<div>", "</div>", "<!--c-->", "<!DOCTYPE html>", "<br/>"}

InitComment ==
  InitFor(SeqsUpTo(AlphabetComment, MaxLenComment), {Formatter("", "none")})

SpecComment == InitComment /\ [][Next]_vars

\* Sources with a void element, plain and with the placeholder attribute,
\* inside and outside a verbatim element.
MaxLenBr == 4

AlphabetBr == {"a", "<div>", "</div>", "<br>", "<br newline>", "<pre>"}

InitBr == InitFor(SeqsUpTo(AlphabetBr, MaxLenBr), {Formatter("newline", "none")})

SpecBr == InitBr /\ [][Next]_vars

\* Sources with texts that have spaces and newlines around their content,
\* next to inline and block tags.
MaxLenInline == 5

AlphabetInline == {"a", " ", "\n", "<span>", "</span>", "<div>"}

InitInline ==
  InitFor(SeqsUpTo(AlphabetInline, MaxLenInline), {Formatter("", "none")})

SpecInline == InitInline /\ [][Next]_vars

\* Sources with void elements and end tags named after them.
MaxLenVoid == 4

AlphabetVoid == {"a", "<div>", "</div>", "<br>", "</br>", "<br/>"}

InitVoid == InitFor(SeqsUpTo(AlphabetVoid, MaxLenVoid), {Formatter("", "none")})

SpecVoid == InitVoid /\ [][Next]_vars

\* One Formatter used for several Format calls in a row.
MaxCalls == 3

ReuseInputs ==
  { <<"a", "\n", " ", "a">>,
    <<"a", "\n", " ", " ", "a", "\n", " ", " ", "a">>,
    <<"<div>", "a", "\n", " ", "a", "</div>">>,
    <<"<div>", "<div>", "a">>,
    <<"a", "<div newline/>">>,
    <<"<br newline/>", "a">> }

InitReuse ==
  InitFor(ReuseInputs, {Formatter("", "none"), Formatter("newline", "none")})

NextReuse == Next \/ FormatReuse(ReuseInputs, MaxCalls)

SpecReuse == InitReuse /\ [][NextReuse]_vars

\* Goroutines calling getOrCompileRegexp at once, no Format call running.
NumGoroutines == 3
MaxPattern == 1
MaxCacheCalls == 2

Goroutines == 1..NumGoroutines

InitCache ==
  /\ cfg = Formatter("", "none")
  /\ src = <<>>
  /\ events = <<>>
  /\ prs = newParser
  /\ tokens = <<>>
  /\ pc = "done"
  /\ pos = 0
  /\ w = newWriter
  /\ inPre = FALSE
  /\ formatText = ""
  /\ dst = newSink
  /\ lastW = <<>>
  /\ result = "ok"
  /\ round = 1
  /\ first = <<>>
  /\ history = <<>>
  /\ ops = <<>>
  /\ regexpCache = emptyCache
  /\ mu = newRWMutex
  /\ gs = [g \in Goroutines |->
            [pc |-> "idle", re |-> 0, r |-> MustCompile(0), n |-> 0]]

NextCache ==
  \E g \in Goroutines :
    \/ CacheCall(g, 0..MaxPattern, MaxCacheCalls)
    \/ CacheRLock(g)
    \/ CacheLookup(g)
    \/ CacheRUnlock(g)
    \/ CacheLock(g)
    \/ CacheStore(g)
    \/ CacheUnlock(g)

SpecCache == InitCache /\ [][NextCache]_vars

\* formatTextBlock on its own: a text with embedded newlines and a render
\* depth, as writer.formatText and TestFormatTextBlock hand them to it.
MaxLenText == 5
MaxTextDepth == 2

TextBlocks ==
  {t \in SeqsUpTo({"a", " ", "\n"}, MaxLenText) : bytesContainsNewline(t)}

InitTextBlock ==
  /\ cfg = Formatter("", "none")
  /\ src \in TextBlocks
  /\ events = <<>>
  /\ prs = newParser
  /\ tokens = <<>>
  /\ pc = "textblock"
  /\ pos = 0
  /\ w \in {[newWriter EXCEPT !.depth = d] : d \in 0..MaxTextDepth}
  /\ inPre = FALSE
  /\ formatText = ""
  /\ dst = newSink
  /\ lastW = <<>>
  /\ result = ""
  /\ round = 1
  /\ first = <<>>
  /\ history = <<>>
  /\ ops = <<>>
  /\ regexpCache = emptyCache
  /\ mu = newRWMutex
  /\ gs = <<>>

\* w.write(w.formatText(text)): the re-indented text is handed to the sink.
FormatTextBlockCall ==
  /\ pc = "textblock"
  /\ pc' = "done"
  /\ result' = "ok"
  /\ lastW' = <<formatTextBlock(tabStr, src, w.depth)>>
  /\ dst' = [dst EXCEPT !.out = @ \o formatTextBlock(tabStr, src, w.depth),
                        !.calls = @ + 1]
  /\ regexpCache' = cacheStore(regexpCache, patternOf(src))
  /\ UNCHANGED <<src, cfg, events, prs, tokens, pos, w, inPre, formatText,
                 round, first, mu, gs, history, ops>>

NextTextBlock == FormatTextBlockCall

SpecTextBlock == InitTextBlock /\ [][NextTextBlock]_vars

\* prepareText on its own: raw bytes and an indent unit, as trackOpen, Format
\* and TestPrepareText hand them to it.
MaxLenRaw == 4

RawTexts == SeqsUpTo({"a", " ", "\n", "\t", "\r"}, MaxLenRaw)

\* The default indent unit and the one TestPrepareText uses.
TabUnits == {tabStr, <<"%", "%">>}

InitPrepareText ==
  /\ cfg = Formatter("", "none")
  /\ src \in RawTexts
  /\ events = <<>>
  /\ prs \in {newParser @@ [tab |-> t] : t \in TabUnits}
  /\ tokens = <<>>
  /\ pc = "prepareText"
  /\ pos = 0
  /\ w = newWriter
  /\ inPre = FALSE
  /\ formatText = ""
  /\ dst = newSink
  /\ lastW = <<>>
  /\ result = ""
  /\ round = 1
  /\ first = <<>>
  /\ history = <<>>
  /\ ops = <<>>
  /\ regexpCache = emptyCache
  /\ mu = newRWMutex
  /\ gs = <<>>

\* t.text = prepareText(t.raw, prs.tab) for a Text token with the raw bytes
\* src.
PrepareTextCall ==
  /\ pc = "prepareText"
  /\ pc' = "done"
  /\ result' = "ok"
  /\ tokens' = <<[typ |-> "Text", raw |-> src, text |-> prepareText(src, prs.tab)]>>
  /\ UNCHANGED <<src, cfg, events, prs, pos, w, inPre, formatText, dst, lastW,
                 round, first, regexpCache, mu, gs, history, ops>>

NextPrepareText == PrepareTextCall

SpecPrepareText == InitPrepareText /\ [][NextPrepareText]_vars

\* The writer on its own: the operations Format makes on it, in any order.
MaxOps == 6
MaxDepth == 2

\* What Format hands to writer.write: a raw token, a text with a line break.
WriterContents == {<<"a">>, <<"<div>">>, <<"a", "\n", "a">>}

\* The writer as an operation finds it, nothing written by the operation yet.
writerNow ==
  [depth |-> w.depth, newlineDepth |-> w.newlineDepth,
   writes |-> <<>>, compiled |-> <<>>]

\* One operation on the writer: its state after, the chunks it handed to the
\* sink, and the operation noted in ops.
WriterOp(name, ws) ==
  /\ pc = "writer"
  /\ Len(ops) < MaxOps
  /\ w' = [depth |-> ws.depth, newlineDepth |-> ws.newlineDepth]
  /\ lastW' = ws.writes
  /\ dst' = [dst EXCEPT !.out = @ \o Concat(ws.writes),
                        !.calls = @ + Len(ws.writes)]
  /\ ops' = Append(ops, [op |-> name, writes |-> ws.writes, depth |-> ws.depth])
  /\ UNCHANGED <<src, cfg, events, prs, tokens, pc, pos, inPre, formatText,
                 result, round, first, regexpCache, mu, gs, history>>

\* w.newline()
WriterNewline == WriterOp("newline", newline(writerNow))

\* if w.newline() { w.tab() }
WriterNewlineTab == WriterOp("newlineTab", newlineTab(writerNow))

\* the EndTag of an indented element: newline, depth--, tab
WriterDedent == WriterOp("dedent", dedent(writerNow))

\* w.newlineForced()
WriterNewlineForced == WriterOp("newlineForced", newlineForced(writerNow))

\* w.write(p)
WriterWrite == \E p \in WriterContents : WriterOp("write", write(writerNow, p))

\* curr.indented = true; w.depth++
WriterIndent ==
  /\ w.depth < MaxDepth
  /\ WriterOp("indent", [writerNow EXCEPT !.depth = @ + 1])

InitWriter ==
  /\ cfg = Formatter("", "none")
  /\ src = <<>>
  /\ events = <<>>
  /\ prs = newParser
  /\ tokens = <<>>
  /\ pc = "writer"
  /\ pos = 0
  /\ w = newWriter
  /\ inPre = FALSE
  /\ formatText = ""
  /\ dst = newSink
  /\ lastW = <<>>
  /\ result = ""
  /\ round = 1
  /\ first = <<>>
  /\ history = <<>>
  /\ ops = <<>>
  /\ regexpCache = emptyCache
  /\ mu = newRWMutex
  /\ gs = <<>>

NextWriter ==
  \/ WriterNewline
  \/ WriterNewlineTab
  \/ WriterDedent
  \/ WriterNewlineForced
  \/ WriterWrite
  \/ WriterIndent

SpecWriter == InitWriter /\ [][NextWriter]_vars

----------------------------------------------------------------------------
(* C1 - C10 *)

Done == pc = "done"
Succeeded == pc = "done" /\ result = "ok"

\* C1 (as claimed): Idempotence: when Format succeeds on a source and then
\* succeeds again on its own output with the same Formatter, the second
\* output is byte-identical to the first: Format(Format(x)) = Format(x).
C1_Idempotent == (round = 2 /\ Succeeded) => dst.out = first

StartsWithNewline(b) == Len(b) > 0 /\ b[1] = "\n"
EndsWithNewline(b) == Len(b) > 0 /\ b[Len(b)] = "\n"
StartsWithOneNewline(b) ==
  StartsWithNewline(b) /\ (Len(b) > 1 => b[2] # "\n")
EndsWithOneNewline(b) ==
  EndsWithNewline(b) /\ (Len(b) > 1 => b[Len(b) - 1] # "\n")

\* C2 (as claimed): Boundary newlines: after a successful Format, the output
\* starts with exactly one newline if the source starts with one or more
\* newlines and with none if the source starts with none, and likewise at the
\* end, whatever the first and the last token are.
C2_BoundaryNewlines ==
  (round = 1 /\ Succeeded) =>
    /\ StartsWithNewline(src) => StartsWithOneNewline(dst.out)
    /\ ~StartsWithNewline(src) => ~StartsWithNewline(dst.out)
    /\ EndsWithNewline(src) => EndsWithOneNewline(dst.out)
    /\ ~EndsWithNewline(src) => ~EndsWithNewline(dst.out)


\* An iteration of the layout loop runs on the token tokens[pos + 1].
LayoutStep == pc = "layout" /\ pos < Len(tokens) /\ pos' = pos + 1

\* The layout loop is copying tokens raw: the test of format.go:545.
Passthrough == inPre /\ ~tokens[pos + 1].inPre

\* The token is a tag, comment or doctype carrying the configured attribute.
CarriesPlaceholder(t) ==
  /\ cfg.newlineAttributePlaceholder # ""
  /\ t.typ # "Text"
  /\ \E k \in 1..Len(t.tag.Attributes) :
       t.tag.Attributes[k].Key = cfg.newlineAttributePlaceholder

\* The iteration ends Format with the placeholder error and writes nothing.
AbortsWithPlaceholderError ==
  /\ pc' = "done"
  /\ result' = "placeholder_error"
  /\ lastW' = <<>>
  /\ dst' = dst

\* C3 (as claimed): Placeholder misuse: when a placeholder attribute name is
\* configured and the layout pass reaches a non-text token that carries that
\* attribute and whose tag name is not a void element, Format stops and
\* returns a non-nil error; no byte is written for that token or any later.
C3_MisuseAlwaysAborts ==
  [][(LayoutStep /\ CarriesPlaceholder(tokens[pos + 1])
        /\ ~isVoid(tokens[pos + 1].tag.Name))
      => AbortsWithPlaceholderError]_vars

\* C3: Placeholder misuse outside passthrough: when a placeholder attribute
\* name is configured and the layout pass, not copying tokens raw after a
\* pre/textarea/code start tag, reaches a non-text token that carries that
\* attribute and whose tag name is not a void element, Format stops and
\* returns the placeholder error; no byte is written for that token or any
\* later token.
C3_MisuseAborts ==
  [][(LayoutStep /\ ~Passthrough /\ CarriesPlaceholder(tokens[pos + 1])
        /\ ~isVoid(tokens[pos + 1].tag.Name))
      => AbortsWithPlaceholderError]_vars

\* Format returned the placeholder error after it had written earlier tokens.
C3_Witness ==
  /\ Done
  /\ result = "placeholder_error"
  /\ pos >= 2
  /\ CarriesPlaceholder(tokens[pos])
  /\ dst.out # <<>>
  /\ lastW = <<>>

\* The token is a start or self-closing tag of a void element with the
\* configured placeholder attribute.
VoidPlaceholder(t) ==
  /\ t.typ \in {"StartTag", "SelfClosingTag"}
  /\ isVoid(t.tag.Name)
  /\ CarriesPlaceholder(t)

\* The iteration hands the sink one newline and nothing else, and leaves
\* the writer (depth and newline coalescing state) as it was.
WritesOneForcedNewline ==
  /\ lastW' = <<newlineBytes>>
  /\ dst'.out = dst.out \o newlineBytes
  /\ dst'.calls = dst.calls + 1
  /\ w' = w

\* C4 (as claimed): Placeholder on a void element: each start or self-closing
\* token of a void element that carries the configured placeholder attribute
\* causes exactly one newline to be written and none of the token's own
\* bytes, even if the last thing written was a newline, and the coalescing
\* state is unchanged.
C4_VoidAlwaysForcedNewline ==
  [][(LayoutStep /\ ~dst'.failed /\ VoidPlaceholder(tokens[pos + 1]))
      => WritesOneForcedNewline]_vars

\* C4: Placeholder on a void element outside passthrough: while the layout
\* pass is not copying tokens raw after a pre/textarea/code start tag, each
\* start or self-closing token of a void element that carries the configured
\* placeholder attribute causes exactly one newline to be written and none
\* of the token's own bytes, even if the last thing written was a newline,
\* and the coalescing state is unchanged.
C4_VoidForcedNewline ==
  [][(LayoutStep /\ ~dst'.failed /\ ~Passthrough
        /\ VoidPlaceholder(tokens[pos + 1]))
      => WritesOneForcedNewline]_vars

\* A placeholder token wrote its newline right after a coalescable newline.
C4_Witness ==
  /\ pc = "layout"
  /\ pos >= 2
  /\ VoidPlaceholder(tokens[pos])
  /\ lastW = <<newlineBytes>>
  /\ w.newlineDepth >= 1
  /\ Len(dst.out) >= 2
  /\ dst.out[Len(dst.out)] = "\n"
  /\ dst.out[Len(dst.out) - 1] = "\n"

\* toks[i] is the StartTag that opens a verbatim region.
OpensVerbatim(toks, i) ==
  toks[i].typ = "StartTag" /\ isPreformatted(toks[i].tag.Name)

\* toks[k] is the EndTag matching the StartTag toks[i].
Matches(toks, k, i) == toks[k].typ = "EndTag" /\ toks[k].startElement = i

\* toks[j] lies in a verbatim region: from an opening StartTag up to and
\* including its matching EndTag, or up to the end when nothing matches it.
InVerbatimRegion(toks, j) ==
  \E i \in 1..j :
    /\ OpensVerbatim(toks, i)
    /\ ~\E k \in (i + 1)..(j - 1) : Matches(toks, k, i)

\* The iteration hands the sink the token's raw bytes, in one Write, and
\* nothing else.
WritesRaw == lastW' = <<tokens[pos + 1].raw>>

\* C5 (as claimed): Verbatim passthrough: for every token from the StartTag
\* that opens a verbatim region (pre, textarea, code) up to and including its
\* matching EndTag, the bytes written are exactly the token's raw source
\* bytes, with no newline, indentation, trimming or skipping of
\* whitespace-only text, whatever the render depth.
C5_RegionAlwaysRaw ==
  [][(LayoutStep /\ InVerbatimRegion(tokens, pos + 1)) => WritesRaw]_vars

\* C5: Verbatim passthrough: for every token from the StartTag that opens a
\* verbatim region (pre, textarea, code) up to and including its matching
\* EndTag, the bytes written are exactly the token's raw source bytes, with
\* no newline, indentation, trimming or skipping of whitespace-only text,
\* whatever the render depth; except that a pre, textarea or code StartTag
\* carrying the configured placeholder attribute ends Format with the
\* placeholder error and nothing is written for it.
C5_RegionRaw ==
  [][(LayoutStep /\ InVerbatimRegion(tokens, pos + 1))
      => IF OpensVerbatim(tokens, pos + 1) /\ CarriesPlaceholder(tokens[pos + 1])
         THEN AbortsWithPlaceholderError
         ELSE WritesRaw]_vars

\* A whitespace-only text inside a verbatim region, at a render depth above
\* zero, has been written as it stands.
C5_Witness ==
  /\ pc = "layout"
  /\ pos >= 2
  /\ tokens[pos].typ = "Text"
  /\ ~nonSpaceRe(tokens[pos].raw)
  /\ InVerbatimRegion(tokens, pos)
  /\ ~OpensVerbatim(tokens, pos)
  /\ w.depth > 0
  /\ lastW = <<tokens[pos].raw>>
  /\ ~dst.failed

\* A verbatim region is still open after toks[p]: one of the tokens up to
\* toks[p] opens a region and none of the tokens up to toks[p] matches it.
VerbatimOpenAfter(toks, p) ==
  \E i \in 1..p :
    /\ OpensVerbatim(toks, i)
    /\ ~\E k \in (i + 1)..p : Matches(toks, k, i)

\* C6 (as claimed): Verbatim mode ends at the region's close: after the
\* EndTag that matches the verbatim region's opening StartTag has been
\* emitted, the layout engine leaves passthrough mode, so every later token
\* is laid out by the normal rules and is not copied raw.
C6_LeavesPassthrough ==
  (pc = "layout" /\ inPre) => VerbatimOpenAfter(tokens, pos)

\* The iteration lays out a StartTag by the normal rules: no passthrough, no
\* verbatim element, no placeholder attribute, no custom text formatter.
ElementStep ==
  /\ LayoutStep
  /\ ~dst'.failed
  /\ tokens[pos + 1].typ = "StartTag"
  /\ ~Passthrough
  /\ ~tokens[pos + 1].inPre
  /\ ~CarriesPlaceholder(tokens[pos + 1])
  /\ textFormatters(cfg, tokens[pos + 1].tag) = ""

\* The direct children of toks[i] that are block-level start tags or texts
\* holding a newline.
BlockChildren(toks, i) ==
  {k \in 1..Len(toks[i].children) :
     LET c == toks[toks[i].children[k]] IN
     \/ c.typ = "StartTag" /\ ~isInline(c.tag.Name)
     \/ c.typ = "Text" /\ c.text.hasNewline}

\* The bytes of the close tag of the element toks[i], 0 when it has none.
CloseTagBytes(toks, i) ==
  LET K == {k \in 1..Len(toks) : Matches(toks, k, i)} IN
  IF K = {} THEN 0 ELSE ByteLen(toks[CHOOSE k \in K : TRUE].raw)

\* The element of the iteration is expanded: marked indented, the open tag
\* followed by a newline and the indentation of the next depth.
ExpandedNow ==
  /\ tokens'[pos + 1].indented
  /\ w'.depth = w.depth + 1
  /\ Concat(lastW') =
       tokens[pos + 1].raw \o newlineBytes \o Repeat(tabStr, w.depth + 1)

\* The element of the iteration stays on the line: the open tag alone.
OnOneLineNow ==
  /\ ~tokens'[pos + 1].indented
  /\ w'.depth = w.depth
  /\ Concat(lastW') = tokens[pos + 1].raw

FormatterTextStep ==
  /\ LayoutStep
  /\ ~dst'.failed
  /\ pos >= 1
  /\ tokens[pos + 1].typ = "Text"
  /\ tokens[pos].typ = "StartTag"
  /\ textFormatters(cfg, tokens[pos].tag) # ""

\* C8 (as claimed): Custom text formatter: when the lookup returns a
\* formatter for a StartTag, the element is emitted as its raw open tag, then
\* for each Text token inside it the bytes returned by formatter(raw text
\* bytes, current render depth) written verbatim, then its raw close tag; the
\* layout engine adds no newline or indentation of its own for that element,
\* does not mark it indented and does not change the render depth.
C8_FormatterElement ==
  [][/\ (LayoutStep /\ ~dst'.failed /\ ~Passthrough
           /\ tokens[pos + 1].typ = "StartTag"
           /\ textFormatters(cfg, tokens[pos + 1].tag) # "")
         => (WritesRaw /\ ~tokens'[pos + 1].indented /\ w'.depth = w.depth)
     /\ FormatterTextStep
         => /\ lastW' = <<upperAtDepth(tokens[pos + 1].raw, w.depth)>>
            /\ w'.depth = w.depth
     /\ (LayoutStep /\ ~dst'.failed /\ tokens[pos + 1].typ = "EndTag"
           /\ tokens[pos + 1].startElement # 0
           /\ textFormatters(cfg, tokens[tokens[pos + 1].startElement].tag) # "")
         => (lastW'[1] = tokens[pos + 1].raw /\ w'.depth = w.depth)]_vars

\* C9: Tokenizer errors and write ordering: the whole input is tokenized and
\* the token list is built before the first byte is written to the sink;
\* end-of-input ends the build successfully, and if the tokenizer reports any
\* other error Format returns that same error and the sink has received no
\* bytes at all.
C9_ParseBeforeWrite ==
  /\ pc = "parse" => dst = newSink
  /\ dst.calls > 0 =>
       /\ prs.err = ""
       /\ prs.counter = Len(events)
       /\ Len(tokens) = Len(events)
  /\ (pc = "layout" \/ result \in {"ok", "placeholder_error", "panic"}) =>
       /\ prs.err = ""
       /\ prs.i = Len(events)
       /\ Len(tokens) = Len(events)
  /\ prs.err # "" =>
       /\ Done
       /\ result = prs.err
       /\ dst = newSink

\* The tokenizer reported an error after tokens had been read, and Format
\* returned it.
C9_Witness ==
  /\ prs.err \in ReaderErrors
  /\ prs.counter >= 2
  /\ prs.counter < Len(events)
  /\ result = prs.err
  /\ dst.calls = 0

\* Format ended by returning an error to its caller.
ReturnedError == Done /\ result \notin {"ok", "panic"}

\* C10 (as claimed): Sink write failure: when a write to the output sink
\* fails, the current Format call fails with an error (SinkWriteError)
\* reported to its caller, the failed write is not retried, and no further
\* write to the sink is attempted in that call.
C10_WriteFailureReturned == dst.failed => ReturnedError

\* C10: Sink write failure: when a write to the output sink fails, the
\* current Format call ends at once by panicking with the sink's error
\* instead of returning one; the failed write is not retried, and no further
\* write to the sink is attempted in that call.
C10_WriteFailurePanics ==
  [][/\ (dst'.failed /\ ~dst.failed) =>
          /\ pc' = "done"
          /\ result' = "panic"
          /\ lastW' # <<>>
          /\ dst'.calls = dst.calls + Len(lastW')
          /\ dst'.out = dst.out \o Concat(SubSeq(lastW', 1, Len(lastW') - 1))
     /\ dst.failed => dst' = dst]_vars

\* The sink failed a write after it had accepted earlier ones, with tokens
\* still to be laid out.
C10_Witness ==
  /\ dst.failed
  /\ result = "panic"
  /\ dst.out # <<>>
  /\ Len(lastW) >= 2
  /\ pos < Len(tokens)

----------------------------------------------------------------------------
(* C11 - C20 *)

\* Format returned nil or the placeholder error: neither the reader nor the
\* sink failed during the call.
Returned == Done /\ result \in {"ok", "placeholder_error"}

\* The finished call agrees with every earlier call of this Formatter on the
\* same source that the reader and the sink let through.
AgreesWithHistory ==
  Returned =>
    \A i \in 1..Len(history) :
      (history[i].src = src /\ history[i].result \in {"ok", "placeholder_error"})
        => (history[i].out = dst.out /\ history[i].result = result)

\* C11: Formatter reuse: a Format call, whether it succeeds or fails, leaves
\* every field of the Formatter configuration unchanged, and any sequence of
\* Format calls on one Formatter gives, for equal inputs, equal outputs and
\* equal error results regardless of which calls came before.
C11_FormatterReuse == [][cfg' = cfg /\ AgreesWithHistory']_vars

\* A third call has returned on the source of the first, after a second call
\* on another source; text blocks were re-indented with two patterns.
C11_Witness ==
  /\ Returned
  /\ Len(history) = 2
  /\ history[1].src = src
  /\ history[2].src # src
  /\ history[1].out = dst.out
  /\ dst.out # src
  /\ Cardinality(DOMAIN regexpCache) >= 2

\* The lock discipline and the results of getOrCompileRegexp, goroutine g
\* being at gs[g].pc: "rlocked" is the read of the map, "locked" its write.
CacheSafe ==
  \A g \in DOMAIN gs :
    /\ gs[g].pc = "rlocked" => (g \in mu.readers /\ mu.writer = 0)
    /\ gs[g].pc = "locked" =>
         /\ mu.writer = g
         /\ mu.readers = {}
         /\ \A h \in DOMAIN gs \ {g} : gs[h].pc \notin {"rlocked", "locked"}
    /\ gs[g].pc = "returned" => gs[g].r = [pattern |-> gs[g].re]

\* C12: Shared pattern cache under concurrency: for any interleaving of
\* concurrent getOrCompileRegexp calls, the cache map is read only while the
\* read lock is held and written only while the write lock is held (no write
\* overlaps any other access), every call returns a matcher compiled from
\* exactly the pattern it asked for, and an entry once stored for a key is
\* never removed.
C12_CacheUnderConcurrency ==
  [][/\ CacheSafe'
     /\ \A k \in DOMAIN regexpCache :
          k \in DOMAIN regexpCache' /\ regexpCache'[k].pattern = k]_vars

\* One goroutine holds the write lock for a pattern that another goroutine
\* has already stored, while a third waits for the read lock.
C12_Witness ==
  \E g \in DOMAIN gs, h \in DOMAIN gs, k \in DOMAIN gs :
    /\ gs[g].pc = "locked"
    /\ gs[g].re \in DOMAIN regexpCache
    /\ gs[h].pc = "returned"
    /\ gs[h].re = gs[g].re
    /\ gs[k].pc = "call"

\* C13 (as claimed): Depth is non-negative: for every sequence of tokenizer
\* events, including malformed ones with end tags that have no opener, the
\* nesting depth recorded on every token in the built list is greater than or
\* equal to zero.
C13_DepthNonNegative == \A i \in 1..Len(tokens) : tokens[i].depth >= 0

\* The StartTags before toks[k] that an EndTag toks[k] may take as opener:
\* same tag name, same depth, and no EndTag before toks[k] has taken them.
EligibleOpeners(toks, k) ==
  {j \in 1..(k - 1) :
     /\ toks[j].typ = "StartTag"
     /\ toks[j].tag.Name = toks[k].tag.Name
     /\ toks[j].depth = toks[k].depth
     /\ ~\E h \in 1..(k - 1) : Matches(toks, h, j)}

\* C14: Pairing is LIFO-nearest and one-to-one: an EndTag outside a verbatim
\* region (these sources have no verbatim element) gets as its
\* back-reference the most recent earlier StartTag that is not yet closed and
\* has the same tag name and the same depth, and that StartTag is then marked
\* closed; a paired EndTag and its opener have equal depth, no StartTag is
\* the back-reference of two EndTags, a back-reference never points to a
\* Text, EndTag, SelfClosing, Comment or Doctype token, and an EndTag with no
\* eligible opener has no back-reference.  Tokens that are not EndTags have
\* no back-reference.
C14_PairingLIFO ==
  \A k \in 1..Len(tokens) :
    LET E == EligibleOpeners(tokens, k)
        o == tokens[k].startElement
    IN IF tokens[k].typ # "EndTag" THEN o = 0
       ELSE /\ E = {} => o = 0
            /\ E # {} => (o \in E /\ \A j \in E : j <= o)
            /\ o # 0 =>
                 /\ tokens[o].closed
                 /\ tokens[o].typ = "StartTag"
                 /\ tokens[o].depth = tokens[k].depth
                 /\ \A h \in 1..Len(tokens) : Matches(tokens, h, o) => h = k

\* An EndTag had two eligible openers and took the later one.
C14_Witness ==
  \E k \in 1..Len(tokens) :
    /\ tokens[k].typ = "EndTag"
    /\ Cardinality(EligibleOpeners(tokens, k)) >= 2
    /\ tokens[k].startElement \in EligibleOpeners(tokens, k)
    /\ \E j \in EligibleOpeners(tokens, k) : j < tokens[k].startElement

\* The parser reads one more token: tokens'[Len(tokens')] is the new token.
ParseStep == pc = "parse" /\ Len(tokens') = Len(tokens) + 1

\* C15 (as claimed): Void elements: for every token event sequence, a
\* StartTag whose name is a void element leaves the parser depth unchanged,
\* and no EndTag ever gets a void-element StartTag as its matched opener.
C15_VoidNeverPaired ==
  [][/\ (ParseStep /\ tokens'[Len(tokens')].typ = "StartTag"
           /\ isVoid(tokens'[Len(tokens')].tag.Name))
         => prs'.depth = prs.depth
     /\ \A k \in 1..Len(tokens') :
          tokens'[k].startElement # 0
            => ~isVoid(tokens'[tokens'[k].startElement].tag.Name)]_vars

\* C16 (as claimed): Depth is frozen inside a verbatim region: after a
\* StartTag named pre, textarea or code opens a verbatim region, StartTags
\* nested inside it do not increase the parser depth and EndTags nested
\* inside it, as well as the EndTag that closes the region, do not decrease
\* it, and every token inside the region carries the inside-verbatim flag.
C16_DepthFrozenInVerbatim ==
  [][(ParseStep /\ VerbatimOpenAfter(tokens, Len(tokens)))
      => /\ prs'.depth = prs.depth
         /\ tokens'[Len(tokens')].inPre]_vars

\* The needs-expansion decision of the element toks[i]: false when the token
\* is flagged inside-verbatim or has no children, otherwise true for html and
\* body, otherwise true when some direct child is a StartTag of a non-inline
\* element or a Text whose trimmed body holds a newline, otherwise true
\* exactly when the subtree is larger than the threshold.
NeedsExpansion(toks, i) ==
  /\ ~toks[i].inPre
  /\ toks[i].children # <<>>
  /\ \/ toks[i].tag.Name \in {"html", "body"}
     \/ \E k \in 1..Len(toks[i].children) :
          LET c == toks[toks[i].children[k]] IN
          \/ c.typ = "StartTag" /\ ~isInline(c.tag.Name)
          \/ c.typ = "Text" /\ c.text.hasNewline
     \/ size(toks, i) > sizeNewlineThreshold

\* The iteration is on a StartTag for which the lookup returns no custom
\* formatter, and the call goes on after it.
StartTagStep ==
  /\ LayoutStep
  /\ pc' = "layout"
  /\ ~dst'.failed
  /\ tokens[pos + 1].typ = "StartTag"
  /\ textFormatters(cfg, tokens[pos + 1].tag) = ""

\* C17: Needs-expansion decision: for a StartTag without a custom formatter,
\* the element is marked indented and the render depth is increased by one
\* exactly when the needs-expansion decision is true.
C17_ExpansionDecision ==
  [][StartTagStep =>
       /\ tokens'[pos + 1].indented <=> NeedsExpansion(tokens, pos + 1)
       /\ (w'.depth = w.depth + 1) <=> NeedsExpansion(tokens, pos + 1)]_vars

\* The length of the token's own raw bytes, 0 for a whitespace-only Text.
OwnBytes(t) ==
  IF t.typ = "Text" /\ ~nonSpaceRe(t.raw) THEN 0 ELSE ByteLen(t.raw)

\* C18: Subtree size: for every token of a fully built list, size() equals
\* the length of the token's own raw bytes (0 for a whitespace-only Text
\* token) plus the sum of size() over its direct children.
C18_SubtreeSize ==
  pc # "parse" =>
    \A i \in 1..Len(tokens) :
      size(tokens, i) = OwnBytes(tokens[i]) + sizeOfAll(tokens, tokens[i].children)

\* Token i was closed by the time token j was linked to its parent: it is an
\* EndTag, or an EndTag up to and including j took it as its opener.
ClosedWhenLinked(toks, i, j) ==
  \/ toks[i].typ = "EndTag"
  \/ \E k \in 1..j : toks[k].startElement = i

\* The nearest token before j that was not closed when j was added and whose
\* depth is exactly one less than the depth of j; 0 when there is none.
NearestOpenAbove(toks, j) ==
  LET S == {i \in 1..(j - 1) :
              /\ ~ClosedWhenLinked(toks, i, j)
              /\ toks[i].depth = toks[j].depth - 1}
  IN IF S = {} THEN 0 ELSE CHOOSE i \in S : \A k \in S : k <= i

\* The tokens whose children list holds j.
ParentsOf(toks, j) ==
  {i \in 1..Len(toks) : \E k \in 1..Len(toks[i].children) : toks[i].children[k] = j}

\* C19: Child linking: every token is in the children list of the nearest
\* earlier token that was open when it was added and is exactly one level
\* up, and in no other list; so a token has at most one parent, a child is
\* one level below its parent and later in the list, children are kept in
\* input order without repeats, only non-void StartTag tokens have children,
\* and a paired EndTag is a child of its opener's parent, not of its opener.
C19_ChildLinking ==
  /\ \A j \in 1..Len(tokens) :
       /\ ParentsOf(tokens, j) =
            IF NearestOpenAbove(tokens, j) = 0 THEN {}
            ELSE {NearestOpenAbove(tokens, j)}
       /\ \A i \in ParentsOf(tokens, j) :
            /\ i < j
            /\ tokens[j].depth = tokens[i].depth + 1
            /\ tokens[i].typ = "StartTag" /\ ~isVoid(tokens[i].tag.Name)
       /\ tokens[j].startElement # 0 =>
            /\ tokens[j].startElement \notin ParentsOf(tokens, j)
            /\ ParentsOf(tokens, j) = ParentsOf(tokens, tokens[j].startElement)
  /\ \A i \in 1..Len(tokens) :
       \A k, l \in 1..Len(tokens[i].children) :
         k < l => tokens[i].children[k] < tokens[i].children[l]

\* An element holds its child element's StartTag, a Text and the child's
\* paired EndTag as its children.
C19_Witness ==
  \E i, j \in 1..Len(tokens) :
    /\ tokens[j].typ = "EndTag"
    /\ tokens[j].startElement # 0
    /\ ParentsOf(tokens, j) = {i}
    /\ ParentsOf(tokens, tokens[j].startElement) = {i}
    /\ Len(tokens[i].children) >= 3

\* The writer operations that ask for a (non-forced) newline.
NewlineRequests == {"newline", "newlineTab", "dedent"}

\* Operation k asks for a newline while an earlier request is still the
\* last thing that happened: no content write lies between the two.
RequestPending(k) ==
  \E j \in 1..(k - 1) :
    /\ ops[j].op \in NewlineRequests
    /\ \A i \in (j + 1)..(k - 1) : ops[i].op # "write"

\* The chunks a newline request may hand to the sink when it writes: the
\* newline, and after it the indentation of the depth, once.
RequestChunks(k) ==
  IF ops[k].op = "newline" THEN {<<newlineBytes>>}
  ELSE {<<newlineBytes, Repeat(tabStr, ops[k].depth)>>}

\* C20: Newline coalescing: in every sequence of writer operations, a
\* non-forced newline request that follows another one with no content write
\* in between writes nothing, and any other newline request writes one
\* newline; indentation is written only by a request that wrote its newline,
\* once and after it, so at most once between a newline and the next content
\* write.
C20_NewlineCoalescing ==
  \A k \in 1..Len(ops) :
    ops[k].op \in NewlineRequests =>
      IF RequestPending(k) THEN ops[k].writes = <<>>
      ELSE ops[k].writes \in RequestChunks(k)

\* A request wrote its newline, the next request wrote nothing, and after a
\* content write a third request wrote a newline and an indentation.
C20_Witness ==
  \E k \in 1..Len(ops) :
    /\ k + 3 <= Len(ops)
    /\ ops[k].op \in NewlineRequests
    /\ ops[k].writes # <<>>
    /\ ops[k + 1].op \in NewlineRequests
    /\ ops[k + 1].writes = <<>>
    /\ ops[k + 2].op = "write"
    /\ ops[k + 3].op = "newlineTab"
    /\ Len(ops[k + 3].writes) = 2
    /\ ops[k + 3].writes[2] # <<>>

\* The byte sequence s ends with the byte sequence t.
HasSuffix(s, t) ==
  Len(t) <= Len(s) /\ SubSeq(s, Len(s) - Len(t) + 1, Len(s)) = t

\* The iteration is on an EndTag whose matched opening StartTag was marked
\* indented, and the call goes on after it.
IndentedEndTagStep ==
  /\ LayoutStep
  /\ pc' = "layout"
  /\ ~dst'.failed
  /\ tokens[pos + 1].typ = "EndTag"
  /\ tokens[pos + 1].startElement # 0
  /\ tokens[tokens[pos + 1].startElement].indented

\* The closing tag written by the iteration stands on a line of its own
\* behind the indentation of the depth d.
ClosingTagOnOwnLineAt(d) ==
  \E n \in 0..Len(Concat(lastW')) :
    /\ n + Len(tokens[pos + 1].raw) <= Len(Concat(lastW'))
    /\ SubSeq(Concat(lastW'), n + 1, n + Len(tokens[pos + 1].raw)) = tokens[pos + 1].raw
    /\ HasSuffix(dst.out \o SubSeq(Concat(lastW'), 1, n),
                 newlineBytes \o Repeat(tabStr, d))

\* C21: Closing tag of an expanded element: when the layout reaches an EndTag
\* whose matched opening StartTag was marked indented, the render depth goes
\* down by one (never below zero) and the closing tag is written on a line of
\* its own behind the indentation of the new depth, wherever the EndTag
\* stands in the document.
C21_ClosingTagOfExpanded ==
  [][IndentedEndTagStep =>
       /\ w'.depth = (IF w.depth - 1 < 0 THEN 0 ELSE w.depth - 1)
       /\ ClosingTagOnOwnLineAt(w'.depth)]_vars

\* The last StartTag before the token of the iteration has a custom formatter
\* and its own EndTag has been emitted already.
FormatterElementClosed ==
  \E s \in 1..pos :
    /\ tokens[s].typ = "StartTag"
    /\ textFormatters(cfg, tokens[s].tag) # ""
    /\ \A k \in (s + 1)..pos : tokens[k].typ # "StartTag"
    /\ \E e \in (s + 1)..pos : tokens[e].startElement = s

\* What the Text case writes for the token of the iteration when no
\* formatter is in force.
DefaultTextWrites ==
  textCase(tokens, pos + 1, writerNow, inPre, "").ws.writes

\* C22: Scope of a custom text formatter: once the EndTag of the element the
\* formatter was looked up for has been emitted, a later Text token is
\* rendered by the default text rule and a later EndTag of an indented
\* element gets its dedent, also when no StartTag stands in between.
C22_FormatterScope ==
  [][(LayoutStep /\ pc' = "layout" /\ ~dst'.failed /\ FormatterElementClosed) =>
       /\ (tokens[pos + 1].typ = "Text" /\ ~isWhitespaceText(tokens[pos + 1]))
            => lastW' = DefaultTextWrites
       /\ IndentedEndTagStep
            => w'.depth = (IF w.depth - 1 < 0 THEN 0 ELSE w.depth - 1)]_vars

\* The iteration is on a self-closing tag, a comment or a doctype, and the
\* call goes on after it.
StandaloneStep ==
  /\ LayoutStep
  /\ pc' = "layout"
  /\ ~dst'.failed
  /\ ~Passthrough
  /\ tokens[pos + 1].typ \in {"SelfClosingTag", "Comment", "Doctype"}
  /\ ~CarriesPlaceholder(tokens[pos + 1])

\* The byte sequence s ends at the start of a line: with a newline and
\* nothing but indentation after it.
AtLineStart(s) ==
  \E k \in 0..Len(s) : HasSuffix(s, newlineBytes \o Repeat(tabStr, k))

\* C23: Self-closing tags, comments and doctypes: such a token is written
\* with exactly its raw bytes, and when it is not the first token of the
\* document a newline plus indentation stands before it.
C23_StandaloneTokens ==
  [][StandaloneStep =>
       \E n \in 0..Len(Concat(lastW')) :
         /\ n + Len(tokens[pos + 1].raw) <= Len(Concat(lastW'))
         /\ SubSeq(Concat(lastW'), n + 1, n + Len(tokens[pos + 1].raw))
              = tokens[pos + 1].raw
         /\ pos >= 1 => AtLineStart(dst.out \o SubSeq(Concat(lastW'), 1, n))]_vars

\* The iteration is on a StartTag of a void element for which the lookup
\* returns no custom formatter, and the call goes on after it.
VoidStartTagStep ==
  /\ LayoutStep
  /\ pc' = "layout"
  /\ ~dst'.failed
  /\ tokens[pos + 1].typ = "StartTag"
  /\ isVoid(tokens[pos + 1].tag.Name)
  /\ textFormatters(cfg, tokens[pos + 1].tag) = ""

\* What a newline plus indentation request hands to the sink in the state
\* before the iteration: nothing when a request is already pending.
RequestBefore ==
  IF w.newlineDepth = 0 THEN <<newlineBytes, Repeat(tabStr, w.depth)>> ELSE <<>>

\* The placement of the void tag of the iteration: between two tokens a
\* newline plus indentation is requested before it and again after it, as
\* first or last token nothing but the tag is written; it is not marked
\* indented and the render depth stays.
VoidPlacedNow ==
  /\ ~tokens'[pos + 1].indented
  /\ w'.depth = w.depth
  /\ IF pos >= 1 /\ pos + 1 < Len(tokens)
     THEN /\ lastW' = RequestBefore
                        \o <<tokens[pos + 1].raw, newlineBytes, Repeat(tabStr, w.depth)>>
          /\ w'.newlineDepth = 1
     ELSE /\ lastW' = <<tokens[pos + 1].raw>>
          /\ w'.newlineDepth = 0

\* C24 (as claimed): Void StartTag placement: every StartTag of a void
\* element without a custom formatter that has both a previous and a next
\* token gets a newline plus indentation requested before it and again after
\* it, is not marked indented and leaves the render depth; as first or last
\* token it gets no newline.
C24_VoidAlwaysPlaced ==
  [][VoidStartTagStep => VoidPlacedNow]_vars

\* C24: Void StartTag placement: a StartTag of a void element that is laid
\* out by the normal rules (not copied raw in passthrough, no placeholder
\* attribute, no custom formatter) and has both a previous and a next token
\* gets a newline plus indentation requested before it and again after it,
\* is not marked indented and leaves the render depth; as first or last
\* token it gets no newline.
C24_VoidPlacement ==
  [][(VoidStartTagStep /\ ~Passthrough /\ ~CarriesPlaceholder(tokens[pos + 1]))
       => VoidPlacedNow]_vars

\* A void tag between two tokens has been written with a newline and the
\* indentation of depth 1 before it and after it.
C24_Witness ==
  /\ pc = "layout"
  /\ pos >= 2
  /\ pos < Len(tokens)
  /\ tokens[pos].typ = "StartTag"
  /\ isVoid(tokens[pos].tag.Name)
  /\ w.depth = 1
  /\ lastW = <<newlineBytes, Repeat(tabStr, 1), tokens[pos].raw,
               newlineBytes, Repeat(tabStr, 1)>>

\* The iteration renders a Text token with content by the default text rule:
\* not in passthrough, no custom formatter in force.
DefaultTextStep ==
  /\ LayoutStep
  /\ pc' = "layout"
  /\ ~dst'.failed
  /\ tokens[pos + 1].typ = "Text"
  /\ nonSpaceRe(tokens[pos + 1].raw)
  /\ ~Passthrough
  /\ formatText = ""

\* The chunks of the iteration that hold content, in the order written.
ContentChunks ==
  SelectSeq(lastW', LAMBDA c : nonSpaceRe(c))

\* The original bytes b end in whitespace after content, begin with
\* whitespace before content.
EndedInWhitespace(b) == nonSpaceRe(b) /\ IsSpace(b[Len(b)])
BeganWithWhitespace(b) == nonSpaceRe(b) /\ IsSpace(b[1])

\* The token of the iteration is directly followed by an inline StartTag,
\* directly preceded by an inline EndTag.
BeforeInlineStartTag ==
  /\ pos + 1 < Len(tokens)
  /\ tokens[pos + 2].typ = "StartTag"
  /\ isInline(tokens[pos + 2].tag.Name)
AfterInlineEndTag ==
  /\ pos >= 1
  /\ tokens[pos].typ = "EndTag"
  /\ isInline(tokens[pos].tag.Name)

\* The chunk c is the body with one space before it when lead holds and one
\* space after it when trail holds, and no other space around it.
SpacedAs(c, lead, trail) ==
  LET from == IF lead THEN 2 ELSE 1
      to == IF trail THEN Len(c) - 1 ELSE Len(c)
  IN /\ from <= to
     /\ lead => c[1] = " "
     /\ trail => c[Len(c)] = " "
     /\ ~IsSpace(c[from])
     /\ ~IsSpace(c[to])
     /\ ~bytesContainsNewline(c)
          => SubSeq(c, from, to) = Trim(ReplaceTabs(tokens[pos + 1].raw, tabStr))

\* C25: Inline spacing around text: a Text token rendered by the default
\* text rule is written as one chunk; it ends with exactly one space when an
\* inline StartTag directly follows and its original bytes ended in
\* whitespace after content, and with none otherwise; it starts with exactly
\* one space when an inline EndTag directly precedes and its original bytes
\* began with whitespace before content, and with none otherwise; without
\* embedded newline the rest is the trimmed text.
C25_InlineSpacing ==
  [][DefaultTextStep =>
       /\ Len(ContentChunks) = 1
       /\ SpacedAs(ContentChunks[1],
                   AfterInlineEndTag /\ BeganWithWhitespace(tokens[pos + 1].raw),
                   BeforeInlineStartTag /\ EndedInWhitespace(tokens[pos + 1].raw))]_vars

\* A text between an inline EndTag and an inline StartTag has been written
\* with one space before and one space after its body.
C25_Witness ==
  /\ pc = "layout"
  /\ pos >= 2
  /\ pos < Len(tokens)
  /\ tokens[pos].typ = "Text"
  /\ tokens[pos].raw = <<" ", "a", " ">>
  /\ tokens[pos - 1].typ = "EndTag"
  /\ tokens[pos + 1].typ = "StartTag"
  /\ lastW = <<<<" ", "a", " ">>>>

\* The lines of the bytes b: what stands between its newlines.
RECURSIVE LinesOf(_)
LinesOf(b) ==
  IF ~bytesContainsNewline(b) THEN <<b>>
  ELSE LET n == CHOOSE i \in 1..Len(b) :
                  b[i] = "\n" /\ \A j \in 1..(i - 1) : b[j] # "\n"
       IN <<SubSeq(b, 1, n - 1)>> \o LinesOf(SubSeq(b, n + 1, Len(b)))

\* The width of the whitespace the line starts with.
RECURSIVE LeadingWidth(_)
LeadingWidth(line) ==
  IF line # <<>> /\ IsSpace(Head(line)) THEN 1 + LeadingWidth(Tail(line)) ELSE 0

\* The smallest leading-whitespace width among the continuation lines of
\* the text that have content; 0 when none has content.
MinimalIndent(lines) ==
  LET W == {LeadingWidth(lines[k]) :
              k \in {j \in 2..Len(lines) : nonSpaceRe(lines[j])}}
  IN IF W = {} THEN 0 ELSE CHOOSE m \in W : \A n \in W : m <= n

\* C26: Multi-line text re-indentation: formatTextBlock keeps every line of
\* the text and the first line as it is; every continuation line with
\* content comes out as the indent unit repeated render-depth times followed
\* by the line without the smallest leading-whitespace width found among the
\* continuation lines; a blank line stays a line without content.
C26_TextBlockReindented ==
  pc = "done" =>
    LET in == LinesOf(src)
        out == LinesOf(Concat(lastW))
        m == MinimalIndent(in)
    IN /\ Len(out) = Len(in)
       /\ out[1] = in[1]
       /\ \A k \in 2..Len(in) :
            IF nonSpaceRe(in[k])
            THEN out[k] = Repeat(tabStr, w.depth) \o SubSeq(in[k], m + 1, Len(in[k]))
            ELSE ~nonSpaceRe(out[k])

\* The fields of a token that make up the tree.
Structure(t) ==
  [typ |-> t.typ, raw |-> t.raw, tag |-> t.tag, depth |-> t.depth,
   children |-> t.children, startElement |-> t.startElement,
   closed |-> t.closed, inPre |-> t.inPre, i |-> t.i, text |-> t.text]

TabsExpanded(b, unit) ==
  Concat([i \in 1..Len(b) |-> IF b[i] = "\t" THEN unit ELSE <<b[i]>>])

\* The bytes b without the space, carriage-return and newline bytes at its
\* two ends.
Stripped(b) ==
  LET K == {i \in 1..Len(b) : b[i] \notin {" ", "\r", "\n"}}
  IN IF K = {} THEN <<>>
     ELSE SubSeq(b, CHOOSE i \in K : \A j \in K : i <= j,
                    CHOOSE i \in K : \A j \in K : j <= i)

WithoutWhitespace(b) == SelectSeq(b, LAMBDA c : ~IsSpace(c))

PassthroughAt(k) ==
  \E s \in 1..(k - 1) : tokens[s].typ = "StartTag" /\ tokens[s].inPre

\* The custom formatter in force when the layout came to token k: the one
\* looked up for the last StartTag before it that reached the lookup.
FormatterAt(k) ==
  LET S == {s \in 1..(k - 1) :
              /\ tokens[s].typ = "StartTag"
              /\ ~tokens[s].inPre
              /\ ~PassthroughAt(s)
              /\ ~CarriesPlaceholder(tokens[s])}
  IN IF S = {} THEN ""
     ELSE textFormatters(cfg, tokens[CHOOSE s \in S : \A r \in S : r <= s].tag)

\* The EndTag k performed a dedent when the layout came to it: its matched
\* opener was marked indented and the normal rules were in force.
DedentedAt(k) ==
  /\ tokens[k].typ = "EndTag"
  /\ tokens[k].startElement # 0
  /\ tokens[tokens[k].startElement].indented
  /\ ~PassthroughAt(k)
  /\ FormatterAt(k) = ""

\* C30: Render depth bookkeeping: in every layout state the render depth is
\* at least zero and equals the number of StartTags marked indented minus
\* the number of EndTags already processed that performed a dedent; an
\* opener is matched by at most one EndTag, so there is at most one dedent
\* per opener and the clamp at zero is never taken.
C30_DepthBookkeeping ==
  pc = "layout" =>
    /\ w.depth >= 0
    /\ w.depth = Cardinality({s \in 1..pos : tokens[s].indented})
                   - Cardinality({e \in 1..pos : DedentedAt(e)})
    /\ \A e1, e2 \in 1..Len(tokens) :
         (tokens[e1].startElement # 0
            /\ tokens[e1].startElement = tokens[e2].startElement) => e1 = e2

\* The layout has expanded an element and has performed the dedent at its
\* EndTag: the render depth is back at zero.
C30_Witness ==
  /\ pc = "layout"
  /\ w.depth = 0
  /\ \E e \in 1..pos :
       /\ DedentedAt(e)
       /\ tokens[e].startElement < e - 1

\* The non-void StartTags still open after the tokens 1..k, innermost last,
\* when every EndTag closes the innermost one.
RECURSIVE OpenAfter(_, _)
OpenAfter(toks, k) ==
  IF k = 0 THEN <<>>
  ELSE LET t == toks[k] IN
       IF t.typ = "StartTag" /\ ~isVoid(t.tag.Name)
       THEN Append(OpenAfter(toks, k - 1), k)
       ELSE IF t.typ = "EndTag" /\ OpenAfter(toks, k - 1) # <<>>
            THEN SubSeq(OpenAfter(toks, k - 1), 1, Len(OpenAfter(toks, k - 1)) - 1)
            ELSE OpenAfter(toks, k - 1)

\* The innermost StartTag still open when token k comes, 0 when none is.
InnermostOpen(toks, k) ==
  IF OpenAfter(toks, k - 1) = <<>> THEN 0
  ELSE OpenAfter(toks, k - 1)[Len(OpenAfter(toks, k - 1))]

\* Every EndTag of the stream closes the innermost still-open non-void
\* StartTag and has its name.
WellNested(toks) ==
  \A k \in 1..Len(toks) :
    toks[k].typ = "EndTag" =>
      /\ InnermostOpen(toks, k) # 0
      /\ toks[InnermostOpen(toks, k)].tag.Name = toks[k].tag.Name

\* The number of elements open around token k: for an EndTag the ones around
\* the element it closes.
OpenAround(toks, k) ==
  IF toks[k].typ = "EndTag" THEN Len(OpenAfter(toks, k))
  ELSE Len(OpenAfter(toks, k - 1))

\* On a well-nested stream every EndTag is paired with the StartTag it
\* closes, every StartTag that has its EndTag is marked closed and no other
\* is, and every token's depth is the number of elements open around it.
PairedAsNested ==
  \A k \in 1..Len(tokens) :
    /\ tokens[k].typ = "EndTag"
         => /\ tokens[k].startElement = InnermostOpen(tokens, k)
            /\ tokens[tokens[k].startElement].closed
    /\ tokens[k].typ = "StartTag"
         => (tokens[k].closed <=>
               \E e \in (k + 1)..Len(tokens) :
                 tokens[e].typ = "EndTag" /\ InnermostOpen(tokens, e) = k)
    /\ tokens[k].depth = OpenAround(tokens, k)

\* C31 (as claimed): Pairing on well-nested input: for every token stream in
\* which each EndTag closes the innermost still-open non-void StartTag and
\* has its name, every EndTag is paired with exactly that StartTag, every
\* non-void StartTag that has an EndTag is marked closed, each token's depth
\* equals the number of elements open around it, and the parser depth is
\* back at 0 after the last token.
C31_WellNestedBackAtZero ==
  (pc \in {"layout", "done"} /\ prs.err = "" /\ WellNested(tokens))
    => (PairedAsNested /\ prs.depth = 0)

\* C31: Pairing on well-nested input: for every token stream in which each
\* EndTag closes the innermost still-open non-void StartTag and has its name,
\* every EndTag is paired with exactly that StartTag, every non-void StartTag
\* that has an EndTag is marked closed, each token's depth equals the number
\* of elements open around it, and the parser depth after the last token is
\* the number of StartTags still open: 0 when every one has its EndTag.
C31_WellNestedPairing ==
  WellNested(tokens)
    => (PairedAsNested /\ prs.depth = Len(OpenAfter(tokens, Len(tokens))))

\* A well-nested stream with an element inside an element has been parsed to
\* its end: both EndTags are paired and the parser depth is back at 0.
C31_Witness ==
  /\ pc = "layout"
  /\ WellNested(tokens)
  /\ Len(tokens) = 4
  /\ tokens[3].typ = "EndTag"
  /\ tokens[3].startElement = 2
  /\ tokens[4].typ = "EndTag"
  /\ tokens[4].startElement = 1
  /\ tokens[2].depth = 1
  /\ prs.depth = 0

=============================================================================
